---- MODULE Spec2Model ----
(***************************************************************************)
(* Update-resolution engine of Snider/updater: the UpdateService state     *)
(* machine (NewUpdateService, Start), the GitHub-backed and HTTP-backed    *)
(* check operations of updater.go, and the pure helpers they use.          *)
(*                                                                         *)
(* Go strings are modelled as sequences of one-character strings, so that  *)
(* prefix tests, substring tests, parsing and formatting are computed the  *)
(* way the code computes them.  A Go error is a sequence of messages: the  *)
(* nil error is the empty sequence and fmt.Errorf("msg: %w", err) puts     *)
(* "msg" in front of the wrapped error.                                    *)
(*                                                                         *)
(* A function of the code that computes a value and then branches on it    *)
(* several times is written as a chain of operators, each taking the       *)
(* values computed so far as parameters.                                   *)
(***************************************************************************)
EXTENDS Integers, Sequences, FiniteSets, TLC

VARIABLES
    Version,    \* process-wide current version (updater.go: var Version)
    service,    \* the *UpdateService returned by NewUpdateService, or Nil
    newErr,     \* the error returned by NewUpdateService
    config,     \* the UpdateServiceConfig NewUpdateService was called with, or Nil
    call,       \* per caller: the Start call in progress and its locals
    applied,    \* URLs DoUpdate has been invoked with, in order
    starts,     \* number of Start calls made so far
    run         \* the call of a client or helper function made directly, or Nil

vars == <<Version, service, newErr, config, call, applied, starts, run>>

-----------------------------------------------------------------------------
(* Strings (package strings)                                               *)

\* The nil pointer (a record, so that it compares with the structs it stands
\* in for).
Nil == [nil |-> TRUE]

NoErr == << >>

Digits == {"0", "1", "2", "3", "4", "5", "6", "7", "8", "9"}

UpperLetters == <<"A", "B", "C", "D", "E", "F", "G", "H", "I", "J", "K", "L", "M",
                  "N", "O", "P", "Q", "R", "S", "T", "U", "V", "W", "X", "Y", "Z">>

LowerLetters == <<"a", "b", "c", "d", "e", "f", "g", "h", "i", "j", "k", "l", "m",
                  "n", "o", "p", "q", "r", "s", "t", "u", "v", "w", "x", "y", "z">>

\* The characters that occur in the modelled inputs, in ASCII order.
AsciiOrder == <<"+", "-", ".", "/", "0", "1", "2", "3", "4", "5", "6", "7", "8", "9", ":">>
              \o UpperLetters \o <<"_">> \o LowerLetters \o <<"{", "}">>

Ord(c) == CHOOSE i \in 1..Len(AsciiOrder) : AsciiOrder[i] = c

IsLetter(c) == \E i \in 1..26 : c = UpperLetters[i] \/ c = LowerLetters[i]

HasPrefix(s, prefix) ==
    /\ Len(s) >= Len(prefix)
    /\ SubSeq(s, 1, Len(prefix)) = prefix

HasPrefixAt(s, i, sub) ==
    /\ i + Len(sub) - 1 <= Len(s)
    /\ SubSeq(s, i, i + Len(sub) - 1) = sub

TrimPrefix(s, prefix) ==
    IF HasPrefix(s, prefix) THEN SubSeq(s, Len(prefix) + 1, Len(s)) ELSE s

\* The least element of a non-empty set of numbers, 0 for the empty set.
Least(S) == IF S = {} THEN 0 ELSE CHOOSE i \in S : \A j \in S : i <= j

\* strings.Index, 1-based; 0 when sub does not occur in s.
Index(s, sub) == Least({i \in 1..(Len(s) + 1) : HasPrefixAt(s, i, sub)})

Contains(s, sub) == Index(s, sub) > 0

ToLowerChar(c) ==
    IF \E i \in 1..26 : UpperLetters[i] = c
    THEN LowerLetters[CHOOSE i \in 1..26 : UpperLetters[i] = c]
    ELSE c

ToLower(s) == [i \in 1..Len(s) |-> ToLowerChar(s[i])]

\* strings.Trim(s, "/")
RECURSIVE TrimSlashes(_)
TrimSlashes(s) ==
    IF s = << >> THEN s
    ELSE IF Head(s) = "/" THEN TrimSlashes(Tail(s))
    ELSE IF s[Len(s)] = "/" THEN TrimSlashes(SubSeq(s, 1, Len(s) - 1))
    ELSE s

\* s up to (not including) position i, or all of s when i = 0.
Before(s, i) == IF i = 0 THEN s ELSE SubSeq(s, 1, i - 1)

\* s from position i on, or the empty string when i = 0.
From(s, i) == IF i = 0 THEN << >> ELSE SubSeq(s, i, Len(s))

\* strings.Split(s, "/"): always at least one part.
RECURSIVE SplitSlash(_)
SplitSlashAt(s, i) ==
    IF i = 0 THEN <<s>>
    ELSE <<SubSeq(s, 1, i - 1)>> \o SplitSlash(SubSeq(s, i + 1, Len(s)))

SplitSlash(s) == SplitSlashAt(s, Index(s, <<"/">>))

\* Go's s < t on strings: byte-wise lexicographic order.
RECURSIVE StrLess(_, _)
StrLess(x, y) ==
    IF y = << >> THEN FALSE
    ELSE IF x = << >> THEN TRUE
    ELSE IF Head(x) = Head(y) THEN StrLess(Tail(x), Tail(y))
    ELSE Ord(Head(x)) < Ord(Head(y))

-----------------------------------------------------------------------------
(* golang.org/x/mod/semver, as called from updater.go                      *)

NoParse == [ok |-> FALSE, major |-> << >>, minor |-> << >>, patch |-> << >>,
            prerelease |-> << >>]

\* The (t, rest, ok) results of the semver scanners: nothing scanned, or v cut
\* before position i.
NoCut == [t |-> << >>, rest |-> << >>, ok |-> FALSE]

CutAt(v, i) ==
    IF i = -1 THEN NoCut
    ELSE [t |-> SubSeq(v, 1, i - 1), rest |-> SubSeq(v, i, Len(v)), ok |-> TRUE]

\* 1-based index of the first character at or after i that is not a digit.
RECURSIVE digitsEnd(_, _)
digitsEnd(v, i) ==
    IF i <= Len(v) /\ v[i] \in Digits THEN digitsEnd(v, i + 1) ELSE i

parseIntAt(v, i) == IF Head(v) = "0" /\ i /= 2 THEN NoCut ELSE CutAt(v, i)

parseInt(v) ==
    IF v = << >> \/ Head(v) \notin Digits THEN NoCut
    ELSE parseIntAt(v, digitsEnd(v, 2))

isIdentChar(c) == IsLetter(c) \/ c \in Digits \/ c = "-"

isNum(v) == digitsEnd(v, 1) = Len(v) + 1

isBadNum(v) == Len(v) > 1 /\ Head(v) = "0" /\ isNum(v)

\* The scanning loop of parsePrerelease; -1 when an identifier is malformed,
\* otherwise the 1-based index where the pre-release string ends.
RECURSIVE prereleaseEnd(_, _, _)
prereleaseEnd(v, i, start) ==
    IF i <= Len(v) /\ v[i] /= "+"
    THEN IF v[i] = "."
         THEN IF start = i \/ isBadNum(SubSeq(v, start, i - 1)) THEN -1
              ELSE prereleaseEnd(v, i + 1, i + 1)
         ELSE IF ~isIdentChar(v[i]) THEN -1
         ELSE prereleaseEnd(v, i + 1, start)
    ELSE IF start = i \/ isBadNum(SubSeq(v, start, i - 1)) THEN -1
         ELSE i

parsePrerelease(v) ==
    IF v = << >> \/ Head(v) /= "-" THEN NoCut
    ELSE CutAt(v, prereleaseEnd(v, 2, 2))

RECURSIVE buildEnd(_, _, _)
buildEnd(v, i, start) ==
    IF i <= Len(v)
    THEN IF v[i] = "."
         THEN IF start = i THEN -1 ELSE buildEnd(v, i + 1, i + 1)
         ELSE IF ~isIdentChar(v[i]) THEN -1
         ELSE buildEnd(v, i + 1, start)
    ELSE IF start = i THEN -1 ELSE i

parseBuild(v) ==
    IF v = << >> \/ Head(v) /= "+" THEN NoCut
    ELSE CutAt(v, buildEnd(v, 2, 2))

\* semver.parse: the prefix "v", MAJOR[.MINOR[.PATCH[-PRERELEASE][+BUILD]]].
parseEnd(p, pre, bld) ==
    IF ~bld.ok \/ bld.rest /= << >> THEN NoParse
    ELSE [p EXCEPT !.prerelease = pre.t]

parseAfterPrerelease(p, pre) ==
    IF ~pre.ok THEN NoParse
    ELSE parseEnd(p, pre, IF pre.rest /= << >> /\ Head(pre.rest) = "+"
                          THEN parseBuild(pre.rest)
                          ELSE [t |-> << >>, rest |-> pre.rest, ok |-> TRUE])

parseAfterPatch(major, minor, pa) ==
    IF ~pa.ok THEN NoParse
    ELSE parseAfterPrerelease(
            [ok |-> TRUE, major |-> major, minor |-> minor, patch |-> pa.t,
             prerelease |-> << >>],
            IF pa.rest /= << >> /\ Head(pa.rest) = "-"
            THEN parsePrerelease(pa.rest)
            ELSE [t |-> << >>, rest |-> pa.rest, ok |-> TRUE])

parseAfterMinor(major, mi) ==
    IF ~mi.ok THEN NoParse
    ELSE IF mi.rest = << >>
    THEN [ok |-> TRUE, major |-> major, minor |-> mi.t, patch |-> <<"0">>,
          prerelease |-> << >>]
    ELSE IF Head(mi.rest) /= "." THEN NoParse
    ELSE parseAfterPatch(major, mi.t, parseInt(Tail(mi.rest)))

parseAfterMajor(ma) ==
    IF ~ma.ok THEN NoParse
    ELSE IF ma.rest = << >>
    THEN [ok |-> TRUE, major |-> ma.t, minor |-> <<"0">>, patch |-> <<"0">>,
          prerelease |-> << >>]
    ELSE IF Head(ma.rest) /= "." THEN NoParse
    ELSE parseAfterMinor(ma.t, parseInt(Tail(ma.rest)))

parse(v) ==
    IF v = << >> \/ Head(v) /= "v" THEN NoParse
    ELSE parseAfterMajor(parseInt(Tail(v)))

IsValid(v) == parse(v).ok

compareInt(x, y) ==
    IF x = y THEN 0
    ELSE IF Len(x) < Len(y) THEN -1
    ELSE IF Len(x) > Len(y) THEN 1
    ELSE IF StrLess(x, y) THEN -1 ELSE 1

\* nextIdent: the identifier up to the next "." and the rest.
nextIdentAt(x, i) == [dx |-> Before(x, i), rest |-> From(x, i)]

nextIdent(x) == nextIdentAt(x, Index(x, <<".">>))

\* The comparison of two differing pre-release identifiers.
compareIdent(dx, dy, ix, iy) ==
    IF ix /= iy THEN (IF ix THEN -1 ELSE 1)
    ELSE IF ix /\ Len(dx) < Len(dy) THEN -1
    ELSE IF ix /\ Len(dx) > Len(dy) THEN 1
    ELSE IF StrLess(dx, dy) THEN -1 ELSE 1

RECURSIVE comparePrereleaseLoop(_, _)
comparePrereleaseStep(nx, ny) ==
    IF nx.dx /= ny.dx THEN compareIdent(nx.dx, ny.dx, isNum(nx.dx), isNum(ny.dx))
    ELSE comparePrereleaseLoop(nx.rest, ny.rest)

comparePrereleaseLoop(x, y) ==
    IF x /= << >> /\ y /= << >>
    THEN comparePrereleaseStep(nextIdent(Tail(x)), nextIdent(Tail(y)))
    ELSE IF x = << >> THEN -1 ELSE 1

comparePrerelease(x, y) ==
    IF x = y THEN 0
    ELSE IF x = << >> THEN 1
    ELSE IF y = << >> THEN -1
    ELSE comparePrereleaseLoop(x, y)

\* The first of the three comparisons that is not 0, or the fourth.
firstNonZero(a, b, c, d) ==
    IF a /= 0 THEN a ELSE IF b /= 0 THEN b ELSE IF c /= 0 THEN c ELSE d

compareParsed(pv, pw) ==
    IF ~pv.ok /\ ~pw.ok THEN 0
    ELSE IF ~pv.ok THEN -1
    ELSE IF ~pw.ok THEN 1
    ELSE firstNonZero(compareInt(pv.major, pw.major),
                      compareInt(pv.minor, pw.minor),
                      compareInt(pv.patch, pw.patch),
                      comparePrerelease(pv.prerelease, pw.prerelease))

\* Faulty variant: an invalid version compares equal to every version.
CompareInvalidAsEqual(v, w) ==
    IF parse(v).ok /\ parse(w).ok THEN compareParsed(parse(v), parse(w)) ELSE 0

\* semver.Compare: an invalid version is less than every valid one and equal
\* to every other invalid one.
Compare(v, w) == compareParsed(parse(v), parse(w))

-----------------------------------------------------------------------------
(* Inputs: the strings the model draws configurations, current versions,   *)
(* release tags and server answers from.                                   *)

\* Current versions (the value of Version when the service starts).
Versions == {
    << >>,
    <<"d", "e", "v">>,
    <<"1", ".", "0", ".", "0">>,
    <<"v", "1", ".", "0", ".", "0">>,
    <<"1", ".", "1", ".", "0">>,
    <<"v", "1", ".", "1", ".", "0">>,
    <<"v", "v", "1", ".", "1", ".", "0">>,
    <<"1", ".", "1", ".", "0", "-", "r", "c", ".", "1">> }

\* Tags of the releases the GithubClient can return, and the version field of
\* a latest.json.
Tags == {
    << >>,
    <<"n", "i", "g", "h", "t", "l", "y">>,
    <<"1", ".", "0", ".", "0">>,
    <<"v", "1", ".", "0", ".", "0">>,
    <<"1", ".", "1", ".", "0">>,
    <<"v", "1", ".", "1", ".", "0">>,
    <<"v", "1", ".", "1", ".", "0", "-", "r", "c", ".", "1">>,
    <<"v", "1", ".", "1", "0", ".", "0">>,
    <<"v", "v", "1", ".", "1", ".", "0">> }

\* runtime.GOOS and runtime.GOARCH of the build.
GOOS == <<"l", "i", "n", "u", "x">>

GOARCH == <<"a", "m", "d", "6", "4">>

AssetLinuxAmd64 == [Name |-> <<"a", "p", "p", "-", "L", "i", "n", "u", "x", "-", "a", "m", "d", "6", "4">>,
                    DownloadURL |-> <<"d", "l", "/", "l", "a">>]

AssetLinuxArm64 == [Name |-> <<"a", "p", "p", "-", "l", "i", "n", "u", "x", "-", "a", "r", "m", "6", "4">>,
                    DownloadURL |-> <<"d", "l", "/", "l", "r">>]

AssetWindows == [Name |-> <<"a", "p", "p", "-", "w", "i", "n", "d", "o", "w", "s", "-", "a", "m", "d", "6", "4">>,
                 DownloadURL |-> <<"d", "l", "/", "w", "a">>]

\* Asset lists of the releases the GithubClient can return.
AssetLists == {
    << >>,
    <<AssetWindows>>,
    <<AssetLinuxArm64, AssetLinuxAmd64>>,
    <<AssetWindows, AssetLinuxArm64>> }

Releases == [TagName : Tags, PreRelease : {FALSE}, Assets : AssetLists]

TagPlaceholder == <<"{", "t", "a", "g", "}">>

OsPlaceholder == <<"{", "o", "s", "}">>

ArchPlaceholder == <<"{", "a", "r", "c", "h", "}">>

\* Values of UpdateServiceConfig.ReleaseURLFormat.
URLFormats == {
    << >>,
    <<"x", "/", "{", "t", "a", "g", "}", "-", "{", "o", "s", "}", "-", "{", "a", "r", "c", "h", "}">> }

\* Values of UpdateServiceConfig.RepoURL.
RepoGitHub == <<"h", "t", "t", "p", "s", ":", "/", "/", "g", "i", "t", "h", "u", "b", ".", "c", "o", "m", "/", "o", "w", "n", "e", "r", "/", "r", "e", "p", "o">>

RepoGitHubOwnerOnly == <<"h", "t", "t", "p", "s", ":", "/", "/", "g", "i", "t", "h", "u", "b", ".", "c", "o", "m", "/", "o", "w", "n", "e", "r">>

RepoGitHubNoScheme == <<"g", "i", "t", "h", "u", "b", ".", "c", "o", "m", "/", "o", "w", "n", "e", "r", "/", "r", "e", "p", "o">>

RepoGitHubScp == <<"g", "i", "t", "h", "u", "b", ".", "c", "o", "m", ":", "o", "w", "n", "e", "r", "/", "r", "e", "p", "o">>

RepoNotAURL == <<"n", "o", "t", "-", "a", "-", "u", "r", "l">>

RepoHTTP == <<"h", "t", "t", "p", ":", "/", "/", "x", ".", "i", "o", "/", "u">>

RepoMissingScheme == <<":", "g", "i", "t", "h", "u", "b", ".", "c", "o", "m", "/", "o", "w", "n", "e", "r", "/", "r", "e", "p", "o">>

RepoHTTPMissingScheme == <<":", "x", ".", "i", "o", "/", "u">>

RepoURLs == {RepoGitHub, RepoGitHubOwnerOnly, RepoGitHubNoScheme, RepoGitHubScp,
             RepoNotAURL, RepoHTTP, RepoMissingScheme, RepoHTTPMissingScheme}

\* The host marker NewUpdateService looks for.
GitHubHost == <<"g", "i", "t", "h", "u", "b", ".", "c", "o", "m">>

\* The path GetLatestUpdateFromURL appends to the base URL.
LatestJSON == <<"/", "l", "a", "t", "e", "s", "t", ".", "j", "s", "o", "n">>

\* The url field of a latest.json.
InfoURLs == {
    << >>,
    <<"h", "t", "t", "p", ":", "/", "/", "x", "/", "u", "{", "t", "a", "g", "}">> }

-----------------------------------------------------------------------------
(* net/url and net/http, as called from the service and generic_http.go.   *)
(* The modelled URLs carry no query, fragment, escape or user information. *)

RECURSIVE getScheme(_, _)
getScheme(rawURL, i) ==
    IF i > Len(rawURL) THEN [scheme |-> << >>, rest |-> rawURL, err |-> NoErr]
    ELSE IF IsLetter(rawURL[i]) THEN getScheme(rawURL, i + 1)
    ELSE IF rawURL[i] \in Digits \cup {"+", "-", "."}
         THEN IF i = 1 THEN [scheme |-> << >>, rest |-> rawURL, err |-> NoErr]
              ELSE getScheme(rawURL, i + 1)
    ELSE IF rawURL[i] = ":"
         THEN IF i = 1
              THEN [scheme |-> << >>, rest |-> << >>, err |-> <<"missing protocol scheme">>]
              ELSE [scheme |-> SubSeq(rawURL, 1, i - 1),
                    rest |-> SubSeq(rawURL, i + 1, Len(rawURL)), err |-> NoErr]
    ELSE [scheme |-> << >>, rest |-> rawURL, err |-> NoErr]

\* strings.LastIndex(s, ":"), 1-based; 0 when there is none.
LastColon(s) ==
    IF \E i \in 1..Len(s) : s[i] = ":"
    THEN CHOOSE i \in 1..Len(s) : s[i] = ":" /\ \A j \in (i + 1)..Len(s) : s[j] /= ":"
    ELSE 0

validOptionalPort(port) ==
    \/ port = << >>
    \/ Head(port) = ":" /\ isNum(Tail(port))

NoURL(err) == [Scheme |-> << >>, Host |-> << >>, Path |-> << >>, Opaque |-> << >>,
               err |-> err]

\* parseAuthority and parseHost: the port after the last colon must be a number.
parseHost(scheme, host, path, c) ==
    IF c /= 0 /\ ~validOptionalPort(SubSeq(host, c, Len(host)))
    THEN NoURL(<<"invalid port after host">>)
    ELSE [Scheme |-> scheme, Host |-> host, Path |-> path, Opaque |-> << >>,
          err |-> NoErr]

parseAuthority(scheme, host, path) == parseHost(scheme, host, path, LastColon(host))

splitAuthority(scheme, authority, i) ==
    parseAuthority(scheme, Before(authority, i), From(authority, i))

\* url.parse after getScheme: an opaque URL, a URL with an authority, or a path.
parseRest(scheme, rest) ==
    IF ~HasPrefix(rest, <<"/">>) /\ scheme /= << >>
    THEN [Scheme |-> scheme, Host |-> << >>, Path |-> << >>, Opaque |-> rest,
          err |-> NoErr]
    ELSE IF ~HasPrefix(rest, <<"/">>)
            /\ Contains(Before(rest, Index(rest, <<"/">>)), <<":">>)
    THEN NoURL(<<"first path segment in URL cannot contain colon">>)
    ELSE IF (scheme /= << >> \/ ~HasPrefix(rest, <<"/", "/", "/">>))
            /\ HasPrefix(rest, <<"/", "/">>)
    THEN splitAuthority(scheme, SubSeq(rest, 3, Len(rest)),
                        Index(SubSeq(rest, 3, Len(rest)), <<"/">>))
    ELSE [Scheme |-> scheme, Host |-> << >>, Path |-> rest, Opaque |-> << >>,
          err |-> NoErr]

parseAfterScheme(s) ==
    IF s.err /= NoErr THEN NoURL(s.err)
    ELSE parseRest(ToLower(s.scheme), s.rest)

urlParse(rawURL) == parseAfterScheme(getScheme(rawURL, 1))

StatusOK == 200

StatusNotFound == 404

\* A body that does not decode as JSON.
Malformed == [malformed |-> TRUE]

TransportErr == <<"connection refused">>

\* What http.Get can return for the URL u: a transport error, or a response
\* with a status and a body.  A body is Malformed or the GenericUpdateInfo it
\* decodes to (a field the JSON lacks decodes to the empty string).  Only an
\* http or https URL with a host can be fetched at all.
HTTPResponses(u) ==
    IF u.Scheme \in {<<"h", "t", "t", "p">>, <<"h", "t", "t", "p", "s">>} /\ u.Host /= << >>
    THEN {[err |-> TransportErr, status |-> 0, body |-> Malformed],
          [err |-> NoErr, status |-> StatusNotFound, body |-> Malformed],
          [err |-> NoErr, status |-> StatusOK, body |-> Malformed]}
         \cup {[err |-> NoErr, status |-> StatusOK, body |-> [Version |-> v, URL |-> w]] :
                 v \in Tags, w \in InfoURLs}
    ELSE {[err |-> <<"unsupported protocol scheme">>, status |-> 0, body |-> Malformed]}

\* What a GithubClient can return from GetLatestRelease.
ClientResults ==
    {[release |-> Nil, err |-> <<"failed to fetch releases">>],
     [release |-> Nil, err |-> NoErr]}
    \cup {[release |-> r, err |-> NoErr] : r \in Releases}

\* What DoUpdate can return.
ApplyResults == {NoErr, <<"update failed">>, <<"failed to rollback from failed update">>}

-----------------------------------------------------------------------------
(* updater.go and generic_http.go: pure functions                          *)

\* Faulty variant: the version is compared as it is written, without the prefix.
formatVersionForComparisonAsWritten(version) == version

formatVersionForComparison(version) ==
    IF version /= << >> /\ ~HasPrefix(version, <<"v">>)
    THEN <<"v">> \o version
    ELSE version

\* Faulty variant: the prefix is added when asked for but never removed.
formatVersionForDisplayNeverStrips(version, forceSemVerPrefix) ==
    IF forceSemVerPrefix /\ ~HasPrefix(version, <<"v">>) THEN <<"v">> \o version
    ELSE version

\* Faulty variant: every "v" is removed, not the leading one only.
formatVersionForDisplayStripsAll(version, forceSemVerPrefix) ==
    IF forceSemVerPrefix /\ ~HasPrefix(version, <<"v">>) THEN <<"v">> \o version
    ELSE IF ~forceSemVerPrefix /\ HasPrefix(version, <<"v">>)
    THEN SelectSeq(version, LAMBDA c : c /= "v")
    ELSE version

formatVersionForDisplay(version, forceSemVerPrefix) ==
    IF forceSemVerPrefix /\ ~HasPrefix(version, <<"v">>) THEN <<"v">> \o version
    ELSE IF ~forceSemVerPrefix /\ HasPrefix(version, <<"v">>)
    THEN TrimPrefix(version, <<"v">>)
    ELSE version

\* Faulty variant: the two versions are compared the other way round.
upToDateIfLatestNotOlder(current, latest) ==
    Compare(formatVersionForComparison(latest), formatVersionForComparison(current)) >= 0

\* Faulty variant: an equal version does not count as up to date.
upToDateOnlyIfNewer(current, latest) ==
    Compare(formatVersionForComparison(current), formatVersionForComparison(latest)) > 0

\* The test "semver.Compare(vCurrent, vLatest) >= 0" of CheckForNewerVersion,
\* CheckForUpdatesHTTP and CheckOnlyHTTP: the current version is up to date.
upToDate(current, latest) ==
    Compare(formatVersionForComparison(current), formatVersionForComparison(latest)) >= 0

\* Faulty variant: only the first placeholder of the template is replaced.
RECURSIVE ReplaceFirstOnly(_, _)
ReplaceFirstOnly(s, tag) ==
    IF s = << >> THEN << >>
    ELSE IF HasPrefix(s, TagPlaceholder) THEN tag \o SubSeq(s, 6, Len(s))
    ELSE IF HasPrefix(s, OsPlaceholder) THEN GOOS \o SubSeq(s, 5, Len(s))
    ELSE IF HasPrefix(s, ArchPlaceholder) THEN GOARCH \o SubSeq(s, 7, Len(s))
    ELSE <<Head(s)>> \o ReplaceFirstOnly(Tail(s), tag)

\* strings.NewReplacer("{tag}", tag, "{os}", GOOS, "{arch}", GOARCH).Replace(s)
RECURSIVE Replace(_, _)
Replace(s, tag) ==
    IF s = << >> THEN << >>
    ELSE IF HasPrefix(s, TagPlaceholder) THEN tag \o Replace(SubSeq(s, 6, Len(s)), tag)
    ELSE IF HasPrefix(s, OsPlaceholder) THEN GOOS \o Replace(SubSeq(s, 5, Len(s)), tag)
    ELSE IF HasPrefix(s, ArchPlaceholder) THEN GOARCH \o Replace(SubSeq(s, 7, Len(s)), tag)
    ELSE <<Head(s)>> \o Replace(Tail(s), tag)

matchesOsArch(asset) ==
    /\ Contains(ToLower(asset.Name), GOOS)
    /\ Contains(ToLower(asset.Name), GOARCH)

matchesOs(asset) == Contains(ToLower(asset.Name), GOOS)

\* Faulty variant: one loop, the first asset that names the OS is taken.
selectAssetFirstOs(assets, both, os) ==
    IF os /= 0 THEN [url |-> assets[os].DownloadURL, err |-> NoErr]
    ELSE [url |-> << >>, err |-> <<"no suitable download asset found">>]

\* The two loops of GetDownloadURL: both is the index of the first asset
\* that names the OS and the architecture, os that of the first that names
\* the OS (0: none).
selectAsset(assets, both, os) ==
    IF both /= 0 THEN [url |-> assets[both].DownloadURL, err |-> NoErr]
    ELSE IF os /= 0 THEN [url |-> assets[os].DownloadURL, err |-> NoErr]
    ELSE [url |-> << >>, err |-> <<"no suitable download asset found">>]

GetDownloadURL(release, releaseURLFormat) ==
    IF release = Nil THEN [url |-> << >>, err |-> <<"no release provided">>]
    ELSE IF releaseURLFormat /= << >>
    THEN [url |-> Replace(releaseURLFormat, release.TagName), err |-> NoErr]
    ELSE selectAsset(release.Assets,
            Least({i \in 1..Len(release.Assets) : matchesOsArch(release.Assets[i])}),
            Least({i \in 1..Len(release.Assets) : matchesOs(release.Assets[i])}))

\* Faulty variant: a latest.json without url is accepted.
decodeLatestVersionOnly(resp) ==
    IF resp.err /= NoErr
    THEN [info |-> Nil, err |-> <<"failed to fetch latest.json">> \o resp.err]
    ELSE IF resp.status /= StatusOK
    THEN [info |-> Nil, err |-> <<"failed to fetch latest.json: status code">>]
    ELSE IF resp.body = Malformed
    THEN [info |-> Nil, err |-> <<"failed to parse latest.json">>]
    ELSE IF resp.body.Version = << >>
    THEN [info |-> Nil, err |-> <<"invalid latest.json content: version or url is missing">>]
    ELSE [info |-> resp.body, err |-> NoErr]

\* GetLatestUpdateFromURL once the base URL has parsed, given the answer
\* resp of http.Get to <baseURL>/latest.json.
decodeLatest(resp) ==
    IF resp.err /= NoErr
    THEN [info |-> Nil, err |-> <<"failed to fetch latest.json">> \o resp.err]
    ELSE IF resp.status /= StatusOK
    THEN [info |-> Nil, err |-> <<"failed to fetch latest.json: status code">>]
    ELSE IF resp.body = Malformed
    THEN [info |-> Nil, err |-> <<"failed to parse latest.json">>]
    ELSE IF resp.body.Version = << >> \/ resp.body.URL = << >>
    THEN [info |-> Nil, err |-> <<"invalid latest.json content: version or url is missing">>]
    ELSE [info |-> resp.body, err |-> NoErr]

GetLatestUpdateFromURLParsed(u, resp) ==
    IF u.err /= NoErr THEN [info |-> Nil, err |-> <<"invalid base URL">> \o u.err]
    ELSE decodeLatest(resp)

GetLatestUpdateFromURL(baseURL, resp) ==
    GetLatestUpdateFromURLParsed(urlParse(baseURL), resp)

\* The URL GetLatestUpdateFromURL requests.
LatestJSONURL(baseURL) == [urlParse(baseURL) EXCEPT !.Path = @ \o LatestJSON]

ParseRepoURLParts(u, parts) ==
    IF u.err /= NoErr THEN [owner |-> << >>, repo |-> << >>, err |-> u.err]
    ELSE IF Len(parts) < 2
    THEN [owner |-> << >>, repo |-> << >>, err |-> <<"invalid repo URL path">>]
    ELSE [owner |-> parts[1], repo |-> parts[2], err |-> NoErr]

ParseRepoURLParsed(u) == ParseRepoURLParts(u, SplitSlash(TrimSlashes(u.Path)))

ParseRepoURL(repoURL) == ParseRepoURLParsed(urlParse(repoURL))

\* Faulty variant: a missing release is reported as an error.
CheckForNewerVersionNoReleaseIsError(got, forceSemVerPrefix) ==
    IF got.err /= NoErr
    THEN [release |-> Nil, updateAvailable |-> FALSE,
          err |-> <<"error fetching latest release">> \o got.err]
    ELSE IF got.release = Nil
    THEN [release |-> Nil, updateAvailable |-> FALSE, err |-> <<"no release found">>]
    ELSE [release |-> got.release,
          updateAvailable |-> ~upToDate(Version, got.release.TagName), err |-> NoErr]

\* Faulty variant: a fetch error is dropped and reported as "no release".
CheckForNewerVersionDropsError(got, forceSemVerPrefix) ==
    IF got.err /= NoErr \/ got.release = Nil
    THEN [release |-> Nil, updateAvailable |-> FALSE, err |-> NoErr]
    ELSE [release |-> got.release,
          updateAvailable |-> ~upToDate(Version, got.release.TagName), err |-> NoErr]

\* Faulty variant: the versions are compared as they are displayed.
CheckForNewerVersionAsDisplayed(got, forceSemVerPrefix) ==
    IF got.err /= NoErr
    THEN [release |-> Nil, updateAvailable |-> FALSE,
          err |-> <<"error fetching latest release">> \o got.err]
    ELSE IF got.release = Nil
    THEN [release |-> Nil, updateAvailable |-> FALSE, err |-> NoErr]
    ELSE [release |-> got.release,
          updateAvailable |->
              Compare(formatVersionForDisplay(Version, forceSemVerPrefix),
                      formatVersionForDisplay(got.release.TagName, forceSemVerPrefix)) < 0,
          err |-> NoErr]

\* CheckForNewerVersion, given what client.GetLatestRelease returned.
CheckForNewerVersion(got, forceSemVerPrefix) ==
    IF got.err /= NoErr
    THEN [release |-> Nil, updateAvailable |-> FALSE,
          err |-> <<"error fetching latest release">> \o got.err]
    ELSE IF got.release = Nil
    THEN [release |-> Nil, updateAvailable |-> FALSE, err |-> NoErr]
    ELSE IF upToDate(Version, got.release.TagName)
    THEN [release |-> got.release, updateAvailable |-> FALSE, err |-> NoErr]
    ELSE [release |-> got.release, updateAvailable |-> TRUE, err |-> NoErr]

-----------------------------------------------------------------------------
(* The service: configuration, construction and Start                      *)

NoCheck == 0

CheckOnStartup == 1

CheckAndUpdateOnStartup == 2

\* A StartupCheckMode outside the three declared values.
UnknownMode == 99

StartupCheckModes == {NoCheck, CheckOnStartup, CheckAndUpdateOnStartup, UnknownMode}

Channels == {<<"s", "t", "a", "b", "l", "e">>}

Configs == [CheckOnStartup : StartupCheckModes, RepoURL : RepoURLs, Channel : Channels,
            ForceSemVerPrefix : BOOLEAN, ReleaseURLFormat : URLFormats]

\* The callers of Start.
Callers == {"c1"}

\* Number of Start calls a behaviour makes.
MaxStarts == 2

\* A caller that is not inside Start: no call made, nothing returned yet.
\* trace lists the functions called and printed the lines printed, in order;
\* fetched holds what the release source answered (client.GetLatestRelease or
\* http.Get), resolved what CheckForNewerVersion returned, info what
\* GetLatestUpdateFromURL returned, applyErr what DoUpdate returned and
\* result what Start returned.
IdleCall == [pc |-> "idle", trace |-> << >>, fetched |-> Nil, resolved |-> Nil,
             info |-> Nil, downloadURL |-> << >>, printed |-> << >>,
             applyErr |-> NoErr, result |-> NoErr]

Init ==
    /\ Version \in Versions
    /\ service = Nil
    /\ newErr = NoErr
    /\ config = Nil
    /\ call = [p \in Callers |-> IdleCall]
    /\ applied = << >>
    /\ starts = 0
    /\ run = Nil

\* Faulty variant: the backend is GitHub exactly when the URL parses as owner/repo.
newServiceByPath(cfg, isGitHub, parsed) ==
    [service |-> [config |-> cfg, owner |-> parsed.owner, repo |-> parsed.repo,
                  isGitHub |-> parsed.err = NoErr],
     err |-> NoErr]

\* NewUpdateService once isGitHub is known and, for a GitHub URL, ParseRepoURL
\* has returned.
newService(cfg, isGitHub, parsed) ==
    IF isGitHub /\ parsed.err /= NoErr
    THEN [service |-> Nil, err |-> <<"failed to parse GitHub repo URL">> \o parsed.err]
    ELSE [service |-> [config |-> cfg,
                       owner |-> IF isGitHub THEN parsed.owner ELSE << >>,
                       repo |-> IF isGitHub THEN parsed.repo ELSE << >>,
                       isGitHub |-> isGitHub],
          err |-> NoErr]

\* NewUpdateService(cfg): the service and the error it returns.
construct(cfg) ==
    newService(cfg, Contains(cfg.RepoURL, GitHubHost), ParseRepoURL(cfg.RepoURL))

NewUpdateService(cfg) ==
    /\ config = Nil
    /\ config' = cfg
    /\ service' = construct(cfg).service
    /\ newErr' = construct(cfg).err
    /\ UNCHANGED <<Version, call, applied, starts, run>>

\* A caller returns err from Start.
Return(c, err) == [c EXCEPT !.pc = "returned", !.result = err]

\* The call c after calling the functions fs.
Called(c, fs) == [c EXCEPT !.trace = @ \o fs]

\* Faulty variant: an unknown mode is treated like NoCheck.
startGitHubCheckLenient(c, mode) ==
    IF mode = CheckOnStartup
    THEN [Called(c, <<"CheckOnly", "CheckForNewerVersion", "GetLatestRelease">>)
            EXCEPT !.pc = "CheckOnly"]
    ELSE IF mode = CheckAndUpdateOnStartup
    THEN [Called(c, <<"CheckForUpdates", "CheckForNewerVersion", "GetLatestRelease">>)
            EXCEPT !.pc = "CheckForUpdates"]
    ELSE Return(c, NoErr)

\* startGitHubCheck, up to the point where the check operation waits for
\* client.GetLatestRelease.
startGitHubCheck(c, mode) ==
    IF mode = NoCheck THEN Return(c, NoErr)
    ELSE IF mode = CheckOnStartup
    THEN [Called(c, <<"CheckOnly", "CheckForNewerVersion", "GetLatestRelease">>)
            EXCEPT !.pc = "CheckOnly"]
    ELSE IF mode = CheckAndUpdateOnStartup
    THEN [Called(c, <<"CheckForUpdates", "CheckForNewerVersion", "GetLatestRelease">>)
            EXCEPT !.pc = "CheckForUpdates"]
    ELSE Return(c, <<"unknown startup check mode">>)

\* The start of CheckOnlyHTTP and CheckForUpdatesHTTP: GetLatestUpdateFromURL
\* parses the base URL and, if that succeeds, issues the GET.
beginHTTP(c, op, u) ==
    IF u.err /= NoErr
    THEN Return(Called(c, <<op, "GetLatestUpdateFromURL">>),
                GetLatestUpdateFromURLParsed(u, Nil).err)
    ELSE [Called(c, <<op, "GetLatestUpdateFromURL", "http.Get">>) EXCEPT !.pc = op]

\* Faulty variant: CheckOnStartup falls through to the applying operation.
startHTTPCheckFallsThrough(c, mode, u) ==
    IF mode = NoCheck THEN Return(c, NoErr)
    ELSE IF mode \in {CheckOnStartup, CheckAndUpdateOnStartup}
    THEN beginHTTP(c, "CheckForUpdatesHTTP", u)
    ELSE Return(c, <<"unknown startup check mode">>)

startHTTPCheck(c, mode, u) ==
    IF mode = NoCheck THEN Return(c, NoErr)
    ELSE IF mode = CheckOnStartup THEN beginHTTP(c, "CheckOnlyHTTP", u)
    ELSE IF mode = CheckAndUpdateOnStartup THEN beginHTTP(c, "CheckForUpdatesHTTP", u)
    ELSE Return(c, <<"unknown startup check mode">>)

\* Faulty variant: Start waits until no other caller is inside Start.
StartOneAtATime(p) ==
    /\ service /= Nil
    /\ call[p].pc \in {"idle", "returned"}
    /\ \A q \in DOMAIN call : call[q].pc \in {"idle", "returned"}
    /\ starts < MaxStarts
    /\ starts' = starts + 1
    /\ call' = [call EXCEPT ![p] =
            IF service.isGitHub
            THEN startGitHubCheck(Called(IdleCall, <<"startGitHubCheck">>),
                                  service.config.CheckOnStartup)
            ELSE startHTTPCheck(Called(IdleCall, <<"startHTTPCheck">>),
                                service.config.CheckOnStartup,
                                urlParse(service.config.RepoURL))]
    /\ UNCHANGED <<Version, service, newErr, config, applied, run>>

Start(p) ==
    /\ service /= Nil
    /\ call[p].pc \in {"idle", "returned"}
    /\ starts < MaxStarts
    /\ starts' = starts + 1
    /\ call' = [call EXCEPT ![p] =
            IF service.isGitHub
            THEN startGitHubCheck(Called(IdleCall, <<"startGitHubCheck">>),
                                  service.config.CheckOnStartup)
            ELSE startHTTPCheck(Called(IdleCall, <<"startHTTPCheck">>),
                                service.config.CheckOnStartup,
                                urlParse(service.config.RepoURL))]
    /\ UNCHANGED <<Version, service, newErr, config, applied, run>>

\* A printed line: the message and the two versions it shows.
Line(msg, current, latest) == [msg |-> msg, current |-> current, latest |-> latest]

Printed(c, line) == [c EXCEPT !.printed = Append(@, line)]

\* What CheckOnly and CheckForUpdates do when no update is available; none is
\* the line printed when there is no release at all.
noUpdate(c, r, none, force) ==
    IF r.release /= Nil
    THEN Return(Printed(Called(c, <<"semver.Compare">>),
                        Line("Current version is up-to-date with latest release",
                             formatVersionForDisplay(Version, force),
                             formatVersionForDisplay(r.release.TagName, force))),
                NoErr)
    ELSE Return(Printed(c, Line(none, << >>, << >>)), NoErr)

\* CheckOnly after CheckForNewerVersion returned r.
afterCheckOnly(c, r, force) ==
    IF r.err /= NoErr THEN Return(c, r.err)
    ELSE IF ~r.updateAvailable THEN noUpdate(c, r, "No new release found.", force)
    ELSE Return(Printed(Called(c, <<"semver.Compare">>),
                        Line("New release found",
                             formatVersionForDisplay(Version, force),
                             formatVersionForDisplay(r.release.TagName, force))),
                NoErr)

\* CheckOnly from the return of client.GetLatestRelease on.
CheckOnly(p) ==
    /\ call[p].pc = "CheckOnly"
    /\ \E got \in ClientResults :
         call' = [call EXCEPT ![p] =
            afterCheckOnly([call[p] EXCEPT !.fetched = got, !.resolved =
                                CheckForNewerVersion(got, service.config.ForceSemVerPrefix)],
                           CheckForNewerVersion(got, service.config.ForceSemVerPrefix),
                           service.config.ForceSemVerPrefix)]
    /\ UNCHANGED <<Version, service, newErr, config, applied, starts, run>>

\* The outcome of a step of a check-and-apply operation: the caller's new
\* state and the URLs DoUpdate was called with (none or one).
Outcome(c, urls) == [c |-> c, urls |-> urls]

\* Faulty variant: the error of GetDownloadURL is not checked.
afterGetDownloadURLUnchecked(c, d) ==
    Outcome([Called(c, <<"DoUpdate">>) EXCEPT !.pc = "DoUpdate", !.downloadURL = d.url],
            <<d.url>>)

\* CheckForUpdates after GetDownloadURL returned d: DoUpdate is called with
\* the URL, unless there is none.
afterGetDownloadURL(c, d) ==
    IF d.err /= NoErr
    THEN Outcome(Return(c, <<"error getting download URL">> \o d.err), << >>)
    ELSE Outcome([Called(c, <<"DoUpdate">>) EXCEPT !.pc = "DoUpdate", !.downloadURL = d.url],
                 <<d.url>>)

\* CheckForUpdates after CheckForNewerVersion returned r.
afterCheckForUpdates(c, r, force, releaseURLFormat) ==
    IF r.err /= NoErr THEN Outcome(Return(c, r.err), << >>)
    ELSE IF ~r.updateAvailable
    THEN Outcome(noUpdate(c, r, "No releases found.", force), << >>)
    ELSE afterGetDownloadURL(
            Printed(Called(c, <<"semver.Compare", "GetDownloadURL">>),
                    Line("Newer version found. Applying update...",
                         formatVersionForDisplay(Version, force),
                         formatVersionForDisplay(r.release.TagName, force))),
            GetDownloadURL(r.release, releaseURLFormat))

\* The caller p moves on as out says.
Step(p, out) ==
    /\ call' = [call EXCEPT ![p] = out.c]
    /\ applied' = applied \o out.urls
    /\ UNCHANGED <<Version, service, newErr, config, starts, run>>

\* CheckForUpdates from the return of client.GetLatestRelease to the call of
\* DoUpdate (or to its own return when DoUpdate is not called).
CheckForUpdates(p) ==
    /\ call[p].pc = "CheckForUpdates"
    /\ \E got \in ClientResults :
         Step(p, afterCheckForUpdates(
                    [call[p] EXCEPT !.fetched = got, !.resolved =
                        CheckForNewerVersion(got, service.config.ForceSemVerPrefix)],
                    CheckForNewerVersion(got, service.config.ForceSemVerPrefix),
                    service.config.ForceSemVerPrefix,
                    service.config.ReleaseURLFormat))

\* CheckOnlyHTTP after GetLatestUpdateFromURL returned g.
afterCheckOnlyHTTP(c, g) ==
    IF g.err /= NoErr THEN Return(c, g.err)
    ELSE IF upToDate(Version, g.info.Version)
    THEN Return(Printed(Called(c, <<"semver.Compare">>),
                        Line("Current version is up-to-date with latest release",
                             Version, g.info.Version)),
                NoErr)
    ELSE Return(Printed(Called(c, <<"semver.Compare">>),
                        Line("New release found", Version, g.info.Version)),
                NoErr)

\* CheckOnlyHTTP from the return of http.Get on.
CheckOnlyHTTP(p) ==
    /\ call[p].pc = "CheckOnlyHTTP"
    /\ \E resp \in HTTPResponses(LatestJSONURL(service.config.RepoURL)) :
         call' = [call EXCEPT ![p] =
            afterCheckOnlyHTTP([call[p] EXCEPT !.fetched = resp, !.info = decodeLatest(resp).info],
                               decodeLatest(resp))]
    /\ UNCHANGED <<Version, service, newErr, config, applied, starts, run>>

\* Faulty variant: info.URL is treated as a template, like ReleaseURLFormat.
afterCheckForUpdatesHTTPTemplated(c, g) ==
    IF g.err /= NoErr THEN Outcome(Return(c, g.err), << >>)
    ELSE IF upToDate(Version, g.info.Version)
    THEN Outcome(Return(Printed(Called(c, <<"semver.Compare">>),
                                Line("Current version is up-to-date with latest release",
                                     Version, g.info.Version)),
                        NoErr),
                 << >>)
    ELSE Outcome([Printed(Called(c, <<"semver.Compare", "DoUpdate">>),
                          Line("Newer version found. Applying update...",
                               Version, g.info.Version))
                    EXCEPT !.pc = "DoUpdate",
                           !.downloadURL = Replace(g.info.URL, g.info.Version)],
                 <<Replace(g.info.URL, g.info.Version)>>)

\* CheckForUpdatesHTTP after GetLatestUpdateFromURL returned g: DoUpdate is
\* called with info.URL when the fetched version is newer.
afterCheckForUpdatesHTTP(c, g) ==
    IF g.err /= NoErr THEN Outcome(Return(c, g.err), << >>)
    ELSE IF upToDate(Version, g.info.Version)
    THEN Outcome(Return(Printed(Called(c, <<"semver.Compare">>),
                                Line("Current version is up-to-date with latest release",
                                     Version, g.info.Version)),
                        NoErr),
                 << >>)
    ELSE Outcome([Printed(Called(c, <<"semver.Compare", "DoUpdate">>),
                          Line("Newer version found. Applying update...",
                               Version, g.info.Version))
                    EXCEPT !.pc = "DoUpdate", !.downloadURL = g.info.URL],
                 <<g.info.URL>>)

\* CheckForUpdatesHTTP from the return of http.Get to the call of DoUpdate.
CheckForUpdatesHTTP(p) ==
    /\ call[p].pc = "CheckForUpdatesHTTP"
    /\ \E resp \in HTTPResponses(LatestJSONURL(service.config.RepoURL)) :
         Step(p, afterCheckForUpdatesHTTP(
                    [call[p] EXCEPT !.fetched = resp, !.info = decodeLatest(resp).info],
                    decodeLatest(resp)))

\* DoUpdate returns err, and the check operation returns it as it is.
afterDoUpdate(c, err) == Return([c EXCEPT !.applyErr = err], err)

\* Faulty variant: a successful update sets the current version to the
\* version applied.
DoUpdateSetsVersion(p) ==
    /\ call[p].pc = "DoUpdate"
    /\ \E err \in ApplyResults :
         /\ call' = [call EXCEPT ![p] = afterDoUpdate(call[p], err)]
         /\ Version' = IF err /= NoErr THEN Version
                        ELSE IF service.isGitHub THEN call[p].fetched.release.TagName
                        ELSE call[p].info.Version
    /\ UNCHANGED <<service, newErr, config, applied, starts, run>>

DoUpdate(p) ==
    /\ call[p].pc = "DoUpdate"
    /\ \E err \in ApplyResults :
         call' = [call EXCEPT ![p] = afterDoUpdate(call[p], err)]
    /\ UNCHANGED <<Version, service, newErr, config, applied, starts, run>>

Next ==
    \/ \E cfg \in Configs : NewUpdateService(cfg)
    \/ \E p \in DOMAIN call : Start(p)
    \/ \E p \in DOMAIN call : CheckOnly(p)
    \/ \E p \in DOMAIN call : CheckForUpdates(p)
    \/ \E p \in DOMAIN call : CheckOnlyHTTP(p)
    \/ \E p \in DOMAIN call : CheckForUpdatesHTTP(p)
    \/ \E p \in DOMAIN call : DoUpdate(p)

Spec == Init /\ [][Next]_vars


-----------------------------------------------------------------------------
(* generic_http.go: the GitHub client and the helper functions, called      *)
(* directly                                                                 *)

Alpha == <<"a", "l", "p", "h", "a">>

Beta == <<"b", "e", "t", "a">>

Stable == <<"s", "t", "a", "b", "l", "e">>

\* The channels a caller can ask for: the three of determineChannel and one
\* that no release is classified as.
RequestedChannels == {Stable, Beta, Alpha, <<"n", "i", "g", "h", "t", "l", "y">>}

\* Faulty variant: the pre-release flag is looked at before the tag.
determineChannelFlagFirst(tagName, isPreRelease) ==
    IF isPreRelease THEN Beta
    ELSE IF Contains(ToLower(tagName), Alpha) THEN Alpha
    ELSE IF Contains(ToLower(tagName), Beta) THEN Beta
    ELSE Stable

determineChannel(tagName, isPreRelease) ==
    IF Contains(ToLower(tagName), Alpha) THEN Alpha
    ELSE IF Contains(ToLower(tagName), Beta) THEN Beta
    ELSE IF isPreRelease THEN Beta
    ELSE Stable

\* Tags of the releases a repository lists.
ListedTags ==
    {<< >>, <<"v", "1", ".", "0", ".", "0">>, <<"v", "1", ".", "1", ".", "0", "-", "b", "e", "t", "a", ".", "1">>, <<"v", "1", ".", "2", ".", "0", "-", "A", "L", "P", "H", "A">>, <<"v", "1", ".", "3", ".", "0", "-", "a", "l", "p", "h", "a", ".", "b", "e", "t", "a">>,
     <<"v", "2", ".", "0", ".", "0", "-", "r", "c", ".", "1">>, <<"v", "1", ".", "0", ".", "0", "-", "a", "l", "p", "h", "a", ".", "p", "r", ".", "1", "2">>, <<"v", "1", ".", "0", ".", "0", "-", "b", "e", "t", "a", ".", "p", "r", ".", "1">>}

ListedReleases == [TagName : ListedTags, PreRelease : BOOLEAN, Assets : {<< >>}]

\* Number of releases in the listing of a repository.
MaxListing == 2

\* The sequences over S of length at most n.
RECURSIVE SeqsUpTo(_, _)
SeqsUpTo(S, n) ==
    IF n = 0 THEN {<< >>}
    ELSE SeqsUpTo(S, n - 1) \cup {Append(s, x) : s \in SeqsUpTo(S, n - 1), x \in S}

Listings == SeqsUpTo(ListedReleases, MaxListing)

\* What client.Do can return for the GET of the releases of a repository: a
\* transport error, or a response with a status and a body; the body is
\* Malformed or holds the items of the JSON list it decodes to.
ListingResponses ==
    {[err |-> TransportErr, status |-> 0, body |-> Malformed],
     [err |-> NoErr, status |-> StatusNotFound, body |-> Malformed],
     [err |-> NoErr, status |-> StatusOK, body |-> Malformed]}
    \cup {[err |-> NoErr, status |-> StatusOK, body |-> [items |-> l]] : l \in Listings}

\* Faulty variant: the last release of the channel is returned.
filterReleasesLast(releases, channel) ==
    IF \E i \in DOMAIN releases :
           determineChannel(releases[i].TagName, releases[i].PreRelease) = channel
    THEN releases[CHOOSE i \in DOMAIN releases :
                    /\ determineChannel(releases[i].TagName, releases[i].PreRelease) = channel
                    /\ \A j \in DOMAIN releases :
                         determineChannel(releases[j].TagName, releases[j].PreRelease) = channel
                           => j <= i]
    ELSE Nil

RECURSIVE filterReleasesFrom(_, _, _)
filterReleasesFrom(releases, channel, i) ==
    IF i > Len(releases) THEN Nil
    ELSE IF determineChannel(releases[i].TagName, releases[i].PreRelease) = channel
    THEN releases[i]
    ELSE filterReleasesFrom(releases, channel, i + 1)

filterReleases(releases, channel) == filterReleasesFrom(releases, channel, 1)

\* The part of GetLatestRelease and GetReleaseByPullRequest up to the decoded
\* listing: the error, if the request, the status or the decoding failed.
listingErr(resp) ==
    IF resp.err /= NoErr THEN resp.err
    ELSE IF resp.status /= StatusOK THEN <<"failed to fetch releases">>
    ELSE IF resp.body = Malformed THEN <<"json: cannot unmarshal">>
    ELSE NoErr

\* githubClient.GetLatestRelease, given the answer to its request.
GetLatestRelease(resp, channel) ==
    IF listingErr(resp) /= NoErr THEN [err |-> listingErr(resp), release |-> Nil]
    ELSE [err |-> NoErr, release |-> filterReleases(resp.body.items, channel)]

\* strconv: the decimal digits of n >= 0, as fmt.Sprintf("%d", n) writes them.
DecimalDigits == <<"0", "1", "2", "3", "4", "5", "6", "7", "8", "9">>

RECURSIVE Itoa(_)
Itoa(n) ==
    IF n < 10 THEN <<DecimalDigits[n + 1]>>
    ELSE Itoa(n \div 10) \o <<DecimalDigits[(n % 10) + 1]>>

\* Pull-request numbers asked for.
PRNumbers == {1, 7, 12}

prTagSuffix(prNumber) == <<".", "p", "r", ".">> \o Itoa(prNumber)

RECURSIVE releaseByPullRequestFrom(_, _, _)
releaseByPullRequestFrom(releases, suffix, i) ==
    IF i > Len(releases) THEN Nil
    ELSE IF Contains(releases[i].TagName, suffix) THEN releases[i]
    ELSE releaseByPullRequestFrom(releases, suffix, i + 1)

\* githubClient.GetReleaseByPullRequest, given the answer to its request.
GetReleaseByPullRequest(resp, prNumber) ==
    IF listingErr(resp) /= NoErr THEN [err |-> listingErr(resp), release |-> Nil]
    ELSE [err |-> NoErr,
          release |-> releaseByPullRequestFrom(resp.body.items, prTagSuffix(prNumber), 1)]

\* The URL both functions request.
ReleasesURL == <<"h", "t", "t", "p", "s", ":", "/", "/", "a", "p", "i", ".", "g", "i", "t", "h", "u", "b", ".", "c", "o", "m", "/", "r", "e", "p", "o", "s", "/", "o", "w", "n", "e", "r", "/", "r", "e", "p", "o", "/", "r", "e", "l", "e", "a", "s", "e", "s">>

\* url.URL.String for a URL without user, query and fragment.
URLString(u) ==
    (IF u.Scheme /= << >> THEN u.Scheme \o <<":">> ELSE << >>)
    \o (IF u.Opaque /= << >> THEN u.Opaque
        ELSE (IF (u.Scheme /= << >> \/ u.Host /= << >>) /\ (u.Host /= << >> \/ u.Path /= << >>)
              THEN <<"/", "/">> \o u.Host ELSE << >>)
             \o (IF u.Path /= << >> /\ Head(u.Path) /= "/" /\ u.Host /= << >>
                 THEN <<"/">> ELSE << >>)
             \o (IF u.Scheme = << >> /\ u.Host = << >>
                    /\ Contains(Before(u.Path, Index(u.Path, <<"/">>)), <<":">>)
                 THEN <<".", "/">> ELSE << >>)
             \o u.Path)

\* Base URLs GetLatestUpdateFromURL is called with.
BaseURLs ==
    {RepoHTTP, RepoNotAURL, RepoHTTPMissingScheme, <<"h", "t", "t", "p", ":", "/", "/", "x", ".", "i", "o">>, <<"h", "t", "t", "p", ":", "/", "/", "x", ".", "i", "o", "/", "u", "/">>}

\* The requests GetLatestUpdateFromURL issues for the parsed base URL u.
latestRequests(u) ==
    IF u.err /= NoErr THEN << >>
    ELSE <<URLString([u EXCEPT !.Path = @ \o LatestJSON])>>

\* strings.Split(s, sep) for a separator sep of one character.
RECURSIVE Split(_, _)
SplitAt(s, sep, i) ==
    IF i = 0 THEN <<s>> ELSE <<SubSeq(s, 1, i - 1)>> \o Split(SubSeq(s, i + 1, Len(s)), sep)

Split(s, sep) == SplitAt(s, sep, Index(s, <<sep>>))

\* strings.Trim(s, cutset): s without the leading and trailing characters
\* that are in cutset.
RECURSIVE TrimLeft(_, _)
TrimLeft(s, cutset) ==
    IF s /= << >> /\ Head(s) \in cutset THEN TrimLeft(Tail(s), cutset) ELSE s

RECURSIVE TrimRight(_, _)
TrimRight(s, cutset) ==
    IF s /= << >> /\ s[Len(s)] \in cutset THEN TrimRight(SubSeq(s, 1, Len(s) - 1), cutset)
    ELSE s

Trim(s, cutset) == TrimRight(TrimLeft(s, cutset), cutset)

\* strings.TrimSpace, for the white space a header can hold.
TrimSpace(s) == Trim(s, {" ", "\t"})

RelNext == <<"r", "e", "l", "=", "\"", "n", "e", "x", "t", "\"">>

\* Faulty variant: the first link of the header is followed, whatever its
\* relation.
RECURSIVE findNextURLAnyRelFrom(_, _)
findNextURLAnyRelFrom(links, i) ==
    IF i > Len(links) THEN << >>
    ELSE IF Len(Split(links[i], ";")) = 2
    THEN Trim(TrimSpace(Split(links[i], ";")[1]), {"<", ">"})
    ELSE findNextURLAnyRelFrom(links, i + 1)

RECURSIVE findNextURLFrom(_, _)
findNextURLFrom(links, i) ==
    IF i > Len(links) THEN << >>
    ELSE IF Len(Split(links[i], ";")) = 2 /\ TrimSpace(Split(links[i], ";")[2]) = RelNext
    THEN Trim(TrimSpace(Split(links[i], ";")[1]), {"<", ">"})
    ELSE findNextURLFrom(links, i + 1)

\* githubClient.findNextURL
findNextURL(linkHeader) == findNextURLFrom(Split(linkHeader, ","), 1)

\* The URLs of a repository listing: the user-scoped and the
\* organization-scoped first page (apiURL "A", userOrOrg "o") and two further
\* pages.
UsersURL == <<"A", "/", "u", "s", "e", "r", "s", "/", "o", "/", "r", "e", "p", "o", "s">>

OrgsURL == <<"A", "/", "o", "r", "g", "s", "/", "o", "/", "r", "e", "p", "o", "s">>

Page2URL == <<"A", "/", "p", "2">>

Page3URL == <<"A", "/", "p", "3">>

\* One link of a Link header: <url>; rel="rel"
Link(url, rel) == <<"<">> \o url \o <<">", ";", " ", "r", "e", "l", "=", "\"">> \o rel \o <<"\"">>

\* The Link header with the given links, separated by ", ".
RECURSIVE LinkHeader(_)
LinkHeader(links) ==
    IF links = << >> THEN << >>
    ELSE IF Len(links) = 1 THEN Link(links[1].url, links[1].rel)
    ELSE Link(links[1].url, links[1].rel) \o <<",", " ">> \o LinkHeader(Tail(links))

Next2 == [url |-> Page2URL, rel |-> <<"n", "e", "x", "t">>]

Next3 == [url |-> Page3URL, rel |-> <<"n", "e", "x", "t">>]

PrevUsers == [url |-> UsersURL, rel |-> <<"p", "r", "e", "v">>]

Prev2 == [url |-> Page2URL, rel |-> <<"p", "r", "e", "v">>]

Last3 == [url |-> Page3URL, rel |-> <<"l", "a", "s", "t">>]

\* How a server answers the request of one page: with the repositories and
\* the links of the page, with a status other than 200, with a body that is
\* not a JSON list, or not at all.
Page(kind, repos, links) == [kind |-> kind, repos |-> repos, links |-> links]

Failures(repos) ==
    {Page("status", repos, << >>), Page("error", repos, << >>),
     Page("malformed", repos, << >>)}

UsersPages ==
    {Page("ok", <<<<"u", "1">>>>, l) :
        l \in {<< >>, <<Next2>>, <<Next3>>, <<Last3>>, <<Last3, Next2>>}}
    \cup Failures(<<<<"u", "1">>>>)

OrgsPages ==
    {Page("ok", <<<<"o", "1">>>>, l) : l \in {<< >>, <<Next2>>}} \cup Failures(<<<<"o", "1">>>>)

Page2s ==
    {Page("ok", <<<<"r", "2">>, <<"r", "2", "b">>>>, l) :
        l \in {<< >>, <<PrevUsers>>, <<Next3>>, <<PrevUsers, Next3>>}}
    \cup Failures(<<<<"r", "2">>>>)

Page3s ==
    {Page("ok", <<<<"r", "3">>>>, l) : l \in {<< >>, <<Prev2>>}}
    \cup {Page("status", <<<<"r", "3">>>>, << >>)}

Servers == [users : UsersPages, orgs : OrgsPages, p2 : Page2s, p3 : Page3s]

\* The page the server has at url.
PageAt(server, url) ==
    IF url = UsersURL THEN server.users
    ELSE IF url = OrgsURL THEN server.orgs
    ELSE IF url = Page2URL THEN server.p2
    ELSE IF url = Page3URL THEN server.p3
    ELSE Page("status", << >>, << >>)

\* What client.Do returns for the page.
Answer(page) ==
    IF page.kind = "error"
    THEN [err |-> TransportErr, status |-> 0, body |-> Malformed, link |-> << >>]
    ELSE IF page.kind = "status"
    THEN [err |-> NoErr, status |-> StatusNotFound, body |-> Malformed, link |-> << >>]
    ELSE IF page.kind = "malformed"
    THEN [err |-> NoErr, status |-> StatusOK, body |-> Malformed,
          link |-> LinkHeader(page.links)]
    ELSE [err |-> NoErr, status |-> StatusOK, body |-> [items |-> page.repos],
          link |-> LinkHeader(page.links)]

\* Number of requests one call of GetPublicRepos is followed for.
MaxRequests == 6

\* getPublicReposWithAPIURL returns: result is Nil or holds the clone URLs.
finish(r, result, err) == [r EXCEPT !.pc = "done", !.result = result, !.err = err]

Requested(r, url) == [r EXCEPT !.url = url, !.requests = Append(@, url)]

\* The end of one round of the loop: the Link header of the page.
afterFind(r, nextURL) ==
    IF nextURL = << >> THEN finish(r, [items |-> r.allCloneURLs], NoErr) ELSE [r EXCEPT !.url = nextURL]

afterPage(r, linkHeader) ==
    IF linkHeader = << >> THEN finish(r, [items |-> r.allCloneURLs], NoErr)
    ELSE afterFind(r, findNextURL(linkHeader))

\* The second status test, the decoding and the collection of the clone URLs.
afterStatus(r, resp) ==
    IF resp.status /= StatusOK THEN finish(r, Nil, <<"failed to fetch repos">>)
    ELSE IF resp.body = Malformed THEN finish(r, Nil, <<"json: cannot unmarshal">>)
    ELSE afterPage([r EXCEPT !.allCloneURLs = @ \o resp.body.items], resp.link)

\* The request of the organization endpoint.
afterOrgs(r, resp) ==
    IF resp.err /= NoErr THEN finish(r, Nil, resp.err) ELSE afterStatus(r, resp)

\* The request of r.url and the first status test.
afterDo(r, resp) ==
    IF resp.err /= NoErr THEN finish(r, Nil, resp.err)
    ELSE IF resp.status /= StatusOK
    THEN afterOrgs(Requested(r, OrgsURL), Answer(PageAt(r.server, OrgsURL)))
    ELSE afterStatus(r, resp)

\* Faulty variant: the context is looked at before the first request only.
roundChecksContextOnce(r) ==
    IF r.cancelled /\ r.requests = << >> THEN finish(r, Nil, <<"context canceled">>)
    ELSE afterDo(Requested(r, r.url), Answer(PageAt(r.server, r.url)))

\* One round of the loop of getPublicReposWithAPIURL.
round(r) ==
    IF r.cancelled THEN finish(r, Nil, <<"context canceled">>)
    ELSE afterDo(Requested(r, r.url), Answer(PageAt(r.server, r.url)))

\* Releases and templates GetDownloadURL is called with directly.
DownloadReleases == [TagName : {<< >>, <<"v", "1", ".", "1", ".", "0">>}, PreRelease : {FALSE}, Assets : AssetLists]

Templates ==
    URLFormats \cup {<<"p", "l", "a", "i", "n">>, <<"{", "t", "a", "g", "}", "{", "t", "a", "g", "}">>, <<"{", "o", "s", "}", "/", "{", "o", "s", "}", ".", "{", "a", "r", "c", "h", "}">>, <<"{", "t", "a", "g">>}

\* A call of one of the functions: what it was called with, the requests it
\* issued and what it returned.
Ran(op, args, requests, out) == [op |-> op, args |-> args, requests |-> requests, out |-> out]

determineChannelCall ==
    /\ run = Nil
    /\ \E tagName \in ListedTags, isPreRelease \in BOOLEAN :
         run' = Ran("determineChannel",
                    [tagName |-> tagName, isPreRelease |-> isPreRelease],
                    << >>, determineChannel(tagName, isPreRelease))
    /\ UNCHANGED <<Version, service, newErr, config, call, applied, starts>>

GetLatestReleaseCall ==
    /\ run = Nil
    /\ \E resp \in ListingResponses, channel \in RequestedChannels :
         run' = Ran("GetLatestRelease", [resp |-> resp, channel |-> channel],
                    <<ReleasesURL>>, GetLatestRelease(resp, channel))
    /\ UNCHANGED <<Version, service, newErr, config, call, applied, starts>>

GetReleaseByPullRequestCall ==
    /\ run = Nil
    /\ \E resp \in ListingResponses, prNumber \in PRNumbers :
         run' = Ran("GetReleaseByPullRequest", [resp |-> resp, prNumber |-> prNumber],
                    <<ReleasesURL>>, GetReleaseByPullRequest(resp, prNumber))
    /\ UNCHANGED <<Version, service, newErr, config, call, applied, starts>>

GetDownloadURLCall ==
    /\ run = Nil
    /\ \E release \in DownloadReleases \cup {Nil}, releaseURLFormat \in Templates :
         run' = Ran("GetDownloadURL",
                    [release |-> release, releaseURLFormat |-> releaseURLFormat],
                    << >>, GetDownloadURL(release, releaseURLFormat))
    /\ UNCHANGED <<Version, service, newErr, config, call, applied, starts>>

formatVersionForDisplayCall ==
    /\ run = Nil
    /\ \E version \in Versions \cup Tags, forceSemVerPrefix \in BOOLEAN :
         run' = Ran("formatVersionForDisplay",
                    [version |-> version, forceSemVerPrefix |-> forceSemVerPrefix],
                    << >>, formatVersionForDisplay(version, forceSemVerPrefix))
    /\ UNCHANGED <<Version, service, newErr, config, call, applied, starts>>

\* GetLatestUpdateFromURL(baseURL); resp is the answer to its request, if it
\* issues one.
GetLatestUpdateFromURLCall ==
    /\ run = Nil
    /\ \E baseURL \in BaseURLs :
         \E resp \in HTTPResponses(LatestJSONURL(baseURL)) :
            run' = Ran("GetLatestUpdateFromURL",
                       [baseURL |-> baseURL,
                        resp |-> IF urlParse(baseURL).err = NoErr THEN resp ELSE Nil],
                       latestRequests(urlParse(baseURL)),
                       GetLatestUpdateFromURL(baseURL, resp))
    /\ UNCHANGED <<Version, service, newErr, config, call, applied, starts>>

\* GetPublicRepos(ctx, "o") is called, against one of the servers.
GetPublicRepos ==
    /\ run = Nil
    /\ \E server \in Servers :
         run' = [op |-> "GetPublicRepos", server |-> server, cancelled |-> FALSE,
                 url |-> UsersURL, allCloneURLs |-> << >>, requests |-> << >>,
                 pc |-> "loop", result |-> Nil, err |-> NoErr]
    /\ UNCHANGED <<Version, service, newErr, config, call, applied, starts>>

\* The call of GetPublicRepos in progress goes once round its loop.
GetPublicReposRound ==
    /\ run /= Nil
    /\ run.op = "GetPublicRepos"
    /\ run.pc = "loop"
    /\ Len(run.requests) < MaxRequests
    /\ run' = round(run)
    /\ UNCHANGED <<Version, service, newErr, config, call, applied, starts>>

\* The context of the call of GetPublicRepos in progress is cancelled.
Cancel ==
    /\ run /= Nil
    /\ run.op = "GetPublicRepos"
    /\ run.pc = "loop"
    /\ ~run.cancelled
    /\ run' = [run EXCEPT !.cancelled = TRUE]
    /\ UNCHANGED <<Version, service, newErr, config, call, applied, starts>>

ClientNext ==
    \/ determineChannelCall
    \/ GetLatestReleaseCall
    \/ GetReleaseByPullRequestCall
    \/ GetDownloadURLCall
    \/ formatVersionForDisplayCall
    \/ GetLatestUpdateFromURLCall
    \/ GetPublicRepos
    \/ GetPublicReposRound
    \/ Cancel

\* None of these functions reads the current version: one value stands for all.
ClientInit == Init /\ Version = <<"1", ".", "0", ".", "0">>

\* The functions of the client and the helpers, each called on its own.
ClientSpec == ClientInit /\ [][ClientNext]_vars
-----------------------------------------------------------------------------
(* Properties                                                              *)

Count(seq, x) == Cardinality({i \in DOMAIN seq : seq[i] = x})

In(seq, x) == \E i \in DOMAIN seq : seq[i] = x

IsPrefix(s, t) == Len(s) <= Len(t) /\ SubSeq(t, 1, Len(s)) = s

\* The caller's check has got the answer of a GithubClient / of http.Get.
GitHubAnswered(c) == c.fetched /= Nil /\ service.isGitHub

HTTPAnswered(c) == c.fetched /= Nil /\ ~service.isGitHub

\* The release tag (or fetched version) is strictly greater than the current
\* version in semantic-version order, both carrying the prefix "v".
StrictlyGreater(tag, current) ==
    Compare(formatVersionForComparison(tag), formatVersionForComparison(current)) > 0

V100 == <<"1", ".", "0", ".", "0">>

V110 == <<"1", ".", "1", ".", "0">>

Vv100 == <<"v", "1", ".", "0", ".", "0">>

Vv110 == <<"v", "1", ".", "1", ".", "0">>

NoRelease == [release |-> Nil, err |-> NoErr]

\* C1: whenever the source returned a release, CheckForNewerVersion returns
\* that release and no error, and updateAvailable is TRUE exactly when the
\* release tag is strictly greater than the current version in
\* semantic-version order after both got the prefix "v".
C1_UpdateIffTagStrictlyGreater ==
    \A p \in DOMAIN call :
        (GitHubAnswered(call[p]) /\ call[p].fetched.release /= Nil) =>
            /\ call[p].resolved.release = call[p].fetched.release
            /\ call[p].resolved.err = NoErr
            /\ call[p].resolved.updateAvailable
                 = StrictlyGreater(call[p].fetched.release.TagName, Version)

\* C1 witnesses: an equal tag written with the other prefix is reported as up
\* to date, without error.
C1_Witness ==
    \E p \in DOMAIN call :
        /\ GitHubAnswered(call[p])
        /\ call[p].fetched.release /= Nil
        /\ call[p].fetched.release.TagName = Vv110
        /\ Version = V110
        /\ ~call[p].resolved.updateAvailable
        /\ call[p].result = NoErr

\* C2: when the source returns no release and no error, CheckForNewerVersion
\* returns (nil, false, nil) and the check operation and Start return nil
\* without resolving a URL or calling DoUpdate.
C2_NoReleaseIsNotAnError ==
    \A p \in DOMAIN call :
        (GitHubAnswered(call[p]) /\ call[p].fetched = NoRelease) =>
            /\ call[p].resolved = [release |-> Nil, updateAvailable |-> FALSE, err |-> NoErr]
            /\ call[p].pc = "returned"
            /\ call[p].result = NoErr
            /\ ~In(call[p].trace, "GetDownloadURL")
            /\ ~In(call[p].trace, "DoUpdate")
            /\ Len(applied) < starts

C2_Witness ==
    \E p \in DOMAIN call :
        /\ GitHubAnswered(call[p])
        /\ call[p].fetched = NoRelease
        /\ In(call[p].trace, "CheckForUpdates")
        /\ call[p].pc = "returned"

\* The order of the calls of a GitHub-backed check-and-apply.
CheckForUpdatesOrder ==
    <<"startGitHubCheck", "CheckForUpdates", "CheckForNewerVersion", "GetLatestRelease",
      "semver.Compare", "GetDownloadURL", "DoUpdate">>

\* CheckForUpdates found an update and GetDownloadURL gave a URL for it.
Applicable(c) ==
    /\ c.resolved.err = NoErr
    /\ c.resolved.updateAvailable
    /\ GetDownloadURL(c.resolved.release, service.config.ReleaseURLFormat).err = NoErr

\* C3: in CheckForUpdates the calls happen in the order fetch, compare,
\* GetDownloadURL, DoUpdate; DoUpdate is called once, with the URL
\* GetDownloadURL returned, exactly when an update is available and
\* GetDownloadURL succeeded, and not at all otherwise; what DoUpdate returns
\* is returned as it is, and DoUpdate is not called again.
C3_ApplyOnceAfterResolve ==
    /\ Len(applied) <= starts
    /\ \A p \in DOMAIN call :
        (GitHubAnswered(call[p]) /\ In(call[p].trace, "CheckForUpdates")) =>
            /\ IsPrefix(call[p].trace, CheckForUpdatesOrder)
            /\ Count(call[p].trace, "DoUpdate") = IF Applicable(call[p]) THEN 1 ELSE 0
            /\ Applicable(call[p]) =>
                 /\ call[p].downloadURL =
                      GetDownloadURL(call[p].resolved.release,
                                     service.config.ReleaseURLFormat).url
                 /\ In(applied, call[p].downloadURL)
            /\ (call[p].pc = "returned" /\ Applicable(call[p])) =>
                 call[p].result = call[p].applyErr
            /\ (call[p].pc = "returned" /\ ~Applicable(call[p])) => Len(applied) < starts

\* C3 witness: DoUpdate was called with the URL of the matching asset and
\* failed, and Start returned that failure.
C3_Witness ==
    \E p \in DOMAIN call :
        /\ In(call[p].trace, "CheckForUpdates")
        /\ call[p].pc = "returned"
        /\ call[p].downloadURL = AssetLinuxAmd64.DownloadURL
        /\ applied = <<AssetLinuxAmd64.DownloadURL>>
        /\ call[p].result = <<"update failed">>

\* C4: in NoCheck mode Start returns nil without fetching and without calling
\* DoUpdate; in CheckOnStartup mode it fetches but never resolves a URL and
\* never calls DoUpdate; so DoUpdate is only ever called in
\* CheckAndUpdateOnStartup mode, for both backends.
C4_ApplyOnlyInCheckAndUpdateMode ==
    \A p \in DOMAIN call :
        call[p].pc /= "idle" =>
            /\ service.config.CheckOnStartup = NoCheck =>
                 /\ call[p].pc = "returned"
                 /\ call[p].result = NoErr
                 /\ call[p].trace \in {<<"startGitHubCheck">>, <<"startHTTPCheck">>}
            /\ service.config.CheckOnStartup = CheckOnStartup =>
                 /\ In(call[p].trace, IF service.isGitHub THEN "GetLatestRelease"
                                      ELSE "GetLatestUpdateFromURL")
                 /\ ~In(call[p].trace, "GetDownloadURL")
                 /\ ~In(call[p].trace, "DoUpdate")
                 /\ call[p].pc /= "DoUpdate"
                 /\ (call[p].pc = "returned" /\ call[p].result = NoErr) =>
                        Len(call[p].printed) = 1
            /\ service.config.CheckOnStartup /= CheckAndUpdateOnStartup => applied = << >>

\* C4 witness: an HTTP-backed CheckOnStartup found a newer version, reported
\* it and returned without any call of DoUpdate.
C4_Witness ==
    \E p \in DOMAIN call :
        /\ call[p].pc = "returned"
        /\ ~service.isGitHub
        /\ service.config.CheckOnStartup = CheckOnStartup
        /\ call[p].pc = "returned"
        /\ call[p].info /= Nil
        /\ StrictlyGreater(call[p].info.Version, Version)
        /\ applied = << >>

\* v with one leading "v" put in front or taken away.
TogglePrefix(v) == IF HasPrefix(v, <<"v">>) THEN TrimPrefix(v, <<"v">>) ELSE <<"v">> \o v

\* v is written with at most one leading "v".
AtMostOnePrefix(v) == ~HasPrefix(TrimPrefix(v, <<"v">>), <<"v">>)

\* The GET of latest.json failed or was answered with another status than 200.
HTTPFetchError(resp) == resp.err /= NoErr \/ resp.status /= StatusOK

C6_UnknownModeIsConfigurationError ==
    \A p \in DOMAIN call :
        (call[p].pc /= "idle"
         /\ service.config.CheckOnStartup
                \notin {NoCheck, CheckOnStartup, CheckAndUpdateOnStartup}) =>
            /\ call[p].pc = "returned"
            /\ call[p].result = <<"unknown startup check mode">>
            /\ call[p].trace \in {<<"startGitHubCheck">>, <<"startHTTPCheck">>}
            /\ call[p].fetched = Nil
            /\ applied = << >>

C6_Witness ==
    \E p \in DOMAIN call :
        /\ call[p].pc = "returned"
        /\ service.isGitHub
        /\ service.config.CheckOnStartup = UnknownMode
        /\ starts = MaxStarts

GitHubOps == {"startGitHubCheck", "CheckOnly", "CheckForUpdates", "CheckForNewerVersion",
              "GetLatestRelease", "GetDownloadURL"}

HTTPOps == {"startHTTPCheck", "CheckOnlyHTTP", "CheckForUpdatesHTTP",
            "GetLatestUpdateFromURL", "http.Get"}

\* The number of calls of the check operation op in the trace of c.
Checks(c, op) == Count(c.trace, op)

\* C7: the service is GitHub-backed exactly when the RepoURL it was built
\* with contains "github.com", and stays so; Start on a GitHub-backed service
\* calls none of the HTTP operations and Start on an HTTP-backed service none
\* of the GitHub operations; in CheckOnStartup mode exactly the check-only
\* operation of the backend is called, once, and in CheckAndUpdateOnStartup
\* mode exactly the check-and-apply operation, once.
C7_BackendFixedAtConstruction ==
    service /= Nil =>
        /\ service.config = config
        /\ service.isGitHub = Contains(config.RepoURL, GitHubHost)
        /\ \A p \in DOMAIN call :
             call[p].pc /= "idle" =>
                /\ service.isGitHub => \A i \in DOMAIN call[p].trace :
                                            call[p].trace[i] \notin HTTPOps
                /\ ~service.isGitHub => \A i \in DOMAIN call[p].trace :
                                            call[p].trace[i] \notin GitHubOps
                /\ Checks(call[p], "CheckOnly")
                     = IF service.isGitHub /\ config.CheckOnStartup = CheckOnStartup
                       THEN 1 ELSE 0
                /\ Checks(call[p], "CheckForUpdates")
                     = IF service.isGitHub /\ config.CheckOnStartup = CheckAndUpdateOnStartup
                       THEN 1 ELSE 0
                /\ Checks(call[p], "CheckOnlyHTTP")
                     = IF ~service.isGitHub /\ config.CheckOnStartup = CheckOnStartup
                       THEN 1 ELSE 0
                /\ Checks(call[p], "CheckForUpdatesHTTP")
                     = IF ~service.isGitHub /\ config.CheckOnStartup = CheckAndUpdateOnStartup
                       THEN 1 ELSE 0

\* C7 witness: a URL without scheme that contains "github.com" gave a
\* GitHub-backed service, whose Start called CheckOnly.
C7_Witness ==
    \E p \in DOMAIN call :
        /\ service /= Nil
        /\ config.RepoURL = RepoGitHubNoScheme
        /\ service.isGitHub
        /\ In(call[p].trace, "CheckOnly")
        /\ call[p].pc = "returned"

\* C8: NewUpdateService returns an error and no service for "not-a-url" and
\* for "https://github.com/owner".
C8_InvalidRepoURLIsRejected ==
    (config /= Nil /\ config.RepoURL \in {RepoNotAURL, RepoGitHubOwnerOnly}) =>
        /\ service = Nil
        /\ newErr /= NoErr

\* C9: a fetch error of the source is returned by CheckForNewerVersion as
\* (nil, false, error) and by the check operation and Start as that error;
\* the source is queried once per check and DoUpdate is not called.
C9_FetchErrorSurfacedOnce ==
    \A p \in DOMAIN call :
        /\ (GitHubAnswered(call[p]) /\ call[p].fetched.err /= NoErr) =>
              /\ call[p].resolved.release = Nil
              /\ ~call[p].resolved.updateAvailable
              /\ call[p].resolved.err = <<"error fetching latest release">> \o call[p].fetched.err
              /\ call[p].pc = "returned"
              /\ call[p].result = call[p].resolved.err
              /\ ~In(call[p].trace, "DoUpdate")
              /\ Len(applied) < starts
        /\ (HTTPAnswered(call[p]) /\ call[p].fetched.err /= NoErr) =>
              /\ call[p].pc = "returned"
              /\ call[p].result = <<"failed to fetch latest.json">> \o call[p].fetched.err
              /\ ~In(call[p].trace, "DoUpdate")
              /\ Len(applied) < starts
        /\ Count(call[p].trace, "GetLatestRelease") <= 1
        /\ Count(call[p].trace, "http.Get") <= 1
        /\ call[p].fetched /= Nil =>
              Count(call[p].trace, "GetLatestRelease") + Count(call[p].trace, "http.Get") = 1

C9_Witness ==
    \E p \in DOMAIN call :
        /\ GitHubAnswered(call[p])
        /\ call[p].fetched.err /= NoErr
        /\ In(call[p].trace, "CheckForUpdates")
        /\ call[p].result /= NoErr

\* The result of the comparison of CheckForNewerVersion is the same for
\* (a, b) and for every pair that differs from it by a leading "v".
PrefixAgnostic(a, b) ==
    \A x \in {a, TogglePrefix(a)}, y \in {b, TogglePrefix(b)} :
        upToDate(x, y) = upToDate(a, b)

\* C10 as stated: for every current version and tag the comparison compared,
\* adding or removing a leading "v" on either side leaves the result as it is.
C10_PrefixNeverMatters ==
    \A p \in DOMAIN call :
        (GitHubAnswered(call[p]) /\ call[p].fetched.release /= Nil) =>
            /\ call[p].resolved.updateAvailable
                 = ~upToDate(Version, call[p].fetched.release.TagName)
            /\ PrefixAgnostic(Version, call[p].fetched.release.TagName)

\* C10 amended: the same, for versions and tags written with at most one
\* leading "v".
C10_PrefixAgnosticUpToOnePrefix ==
    \A p \in DOMAIN call :
        (/\ GitHubAnswered(call[p])
         /\ call[p].fetched.release /= Nil
         /\ AtMostOnePrefix(Version)
         /\ AtMostOnePrefix(call[p].fetched.release.TagName)) =>
            \A x \in {Version, TogglePrefix(Version)},
               y \in {call[p].fetched.release.TagName,
                      TogglePrefix(call[p].fetched.release.TagName)} :
                call[p].resolved.updateAvailable = ~upToDate(x, y)

\* C10 witness: current v1.0.0 and tag 1.1.0, each written with the prefix
\* the other lacks, and an update was found.
C10_Witness ==
    \E p \in DOMAIN call :
        /\ GitHubAnswered(call[p])
        /\ call[p].fetched.release /= Nil
        /\ Version = Vv100
        /\ call[p].fetched.release.TagName = V110
        /\ call[p].resolved.updateAvailable


\* The version is a valid semantic version once it carries the prefix "v".
WellFormed(v) == IsValid(formatVersionForComparison(v))

VNightly == <<"n", "i", "g", "h", "t", "l", "y">>

VDev == <<"d", "e", "v">>

\* C11: the comparison never makes CheckForNewerVersion fail; a malformed tag
\* compares as smaller than every well-formed version, so with a malformed
\* tag and a well-formed current version CheckForNewerVersion returns the
\* release with updateAvailable = FALSE and no error.
C11_MalformedTagIsNoUpdate ==
    \A p \in DOMAIN call :
        (GitHubAnswered(call[p]) /\ call[p].fetched.release /= Nil) =>
            /\ call[p].resolved.err = NoErr
            /\ ~WellFormed(call[p].fetched.release.TagName) =>
                 /\ \A w \in Versions \cup Tags :
                      WellFormed(w) =>
                        Compare(formatVersionForComparison(call[p].fetched.release.TagName),
                                formatVersionForComparison(w)) = -1
                 /\ WellFormed(Version) =>
                      /\ ~call[p].resolved.updateAvailable
                      /\ call[p].resolved.release = call[p].fetched.release
                      /\ call[p].pc = "returned"
                      /\ call[p].result = NoErr

\* C11 witness: tag "nightly" against current version 1.0.0.
C11_Witness ==
    \E p \in DOMAIN call :
        /\ GitHubAnswered(call[p])
        /\ call[p].fetched.release /= Nil
        /\ call[p].fetched.release.TagName = VNightly
        /\ Version = V100
        /\ ~call[p].resolved.updateAvailable
        /\ call[p].pc = "returned"

\* The check of c found an update: CheckOnly / CheckOnlyHTTP printed "New
\* release found", CheckForUpdates / CheckForUpdatesHTTP went on to the update.
ReportedUpdate(c) ==
    \E i \in DOMAIN c.printed :
        c.printed[i].msg \in {"New release found", "Newer version found. Applying update..."}

\* C12 as stated: whenever the current version or the candidate (the release
\* tag, or the version of latest.json) is malformed or empty, no update is
\* reported and DoUpdate is not called.
C12_DegenerateInputIsNoUpdate ==
    \A p \in DOMAIN call :
        /\ (/\ GitHubAnswered(call[p])
            /\ call[p].fetched.release /= Nil
            /\ (~WellFormed(Version) \/ ~WellFormed(call[p].fetched.release.TagName))) =>
              /\ ~call[p].resolved.updateAvailable
              /\ ~ReportedUpdate(call[p])
              /\ ~In(call[p].trace, "DoUpdate")
        /\ (/\ HTTPAnswered(call[p])
            /\ call[p].info /= Nil
            /\ (~WellFormed(Version) \/ ~WellFormed(call[p].info.Version))) =>
              /\ ~ReportedUpdate(call[p])
              /\ ~In(call[p].trace, "DoUpdate")

\* C12 amended: whenever the candidate is malformed or empty, no update is
\* reported and DoUpdate is not called, whatever the current version is (an
\* empty version in latest.json is a fetch error); a malformed or empty
\* current version against a well-formed candidate is reported as an update,
\* and CheckForUpdatesHTTP calls DoUpdate for it.
C12_MalformedCandidateIsNoUpdate ==
    \A p \in DOMAIN call :
        /\ (GitHubAnswered(call[p]) /\ call[p].fetched.release /= Nil) =>
              /\ ~WellFormed(call[p].fetched.release.TagName) =>
                   /\ ~call[p].resolved.updateAvailable
                   /\ ~ReportedUpdate(call[p])
                   /\ ~In(call[p].trace, "DoUpdate")
                   /\ call[p].result = NoErr
              /\ (~WellFormed(Version) /\ WellFormed(call[p].fetched.release.TagName)) =>
                   /\ call[p].resolved.updateAvailable
                   /\ In(call[p].trace, "CheckOnly") => ReportedUpdate(call[p])
                   /\ In(call[p].trace, "CheckForUpdates") =>
                        In(call[p].trace, "GetDownloadURL")
        /\ (/\ HTTPAnswered(call[p])
            /\ call[p].fetched.err = NoErr
            /\ call[p].fetched.status = StatusOK
            /\ call[p].fetched.body /= Malformed) =>
              /\ ~WellFormed(call[p].fetched.body.Version) =>
                   /\ ~ReportedUpdate(call[p])
                   /\ ~In(call[p].trace, "DoUpdate")
                   /\ call[p].fetched.body.Version = << >> => call[p].result /= NoErr
              /\ (/\ ~WellFormed(Version)
                  /\ WellFormed(call[p].fetched.body.Version)
                  /\ call[p].info /= Nil) =>
                   /\ ReportedUpdate(call[p])
                   /\ In(call[p].trace, "CheckForUpdatesHTTP") => In(call[p].trace, "DoUpdate")

\* C12 witness: current version "dev" and tag v1.0.0: CheckForUpdates called
\* DoUpdate.
C12_Witness ==
    \E p \in DOMAIN call :
        /\ GitHubAnswered(call[p])
        /\ call[p].fetched.release /= Nil
        /\ Version = VDev
        /\ call[p].fetched.release.TagName = Vv100
        /\ call[p].resolved.updateAvailable
        /\ In(call[p].trace, "DoUpdate")

-----------------------------------------------------------------------------
(* Properties of the client and the helper functions (ClientSpec)           *)

\* The call made directly was of op.
RanOp(op) == run /= Nil /\ run.op = op

\* s contains sub in any letter case (sub is in lower case).
ContainsFold(s, sub) ==
    \E i \in 0..(Len(s) - Len(sub)) :
        \A k \in 1..Len(sub) : ToLowerChar(s[i + k]) = sub[k]

HasSuffix(s, suffix) ==
    /\ Len(s) >= Len(suffix)
    /\ SubSeq(s, Len(s) - Len(suffix) + 1, Len(s)) = suffix

\* The releases the listing of a successful answer holds.
Listed(resp) ==
    IF resp.err = NoErr /\ resp.status = StatusOK /\ resp.body /= Malformed
    THEN resp.body.items
    ELSE << >>

\* The listing arrived and was decoded.
ListingOK(resp) == resp.err = NoErr /\ resp.status = StatusOK /\ resp.body /= Malformed

\* C13: determineChannel returns alpha, beta or stable, by the rules in
\* priority order: a tag containing "alpha" in any letter case is alpha
\* (whatever else it contains and whatever isPreRelease is); otherwise a tag
\* containing "beta" in any letter case is beta; otherwise a pre-release is
\* beta; otherwise the release is stable.  A tag without "alpha" is never
\* alpha.
C13_ChannelByPriority ==
    RanOp("determineChannel") =>
        /\ run.out \in {Alpha, Beta, Stable}
        /\ ContainsFold(run.args.tagName, Alpha) => run.out = Alpha
        /\ (~ContainsFold(run.args.tagName, Alpha) /\ ContainsFold(run.args.tagName, Beta)) =>
              run.out = Beta
        /\ (/\ ~ContainsFold(run.args.tagName, Alpha)
            /\ ~ContainsFold(run.args.tagName, Beta)
            /\ run.args.isPreRelease) => run.out = Beta
        /\ (/\ ~ContainsFold(run.args.tagName, Alpha)
            /\ ~ContainsFold(run.args.tagName, Beta)
            /\ ~run.args.isPreRelease) => run.out = Stable
        /\ run.out = Alpha => ContainsFold(run.args.tagName, Alpha)

\* C13 witness: the pre-release v1.2.0-ALPHA is alpha.
C13_Witness ==
    /\ RanOp("determineChannel")
    /\ run.args.tagName = <<"v", "1", ".", "2", ".", "0", "-", "A", "L", "P", "H", "A">>
    /\ run.args.isPreRelease
    /\ run.out = Alpha

\* The indices of the releases of the channel.
OfChannel(releases, channel) ==
    {i \in DOMAIN releases :
        determineChannel(releases[i].TagName, releases[i].PreRelease) = channel}

\* C14: GetLatestRelease returns the first release of the listing, in its
\* order, that determineChannel classifies as the requested channel, and no
\* release and no error when the listing has none of that channel.
C14_FirstOfChannel ==
    (RanOp("GetLatestRelease") /\ ListingOK(run.args.resp)) =>
        /\ run.out.err = NoErr
        /\ OfChannel(Listed(run.args.resp), run.args.channel) = {} => run.out.release = Nil
        /\ \A i \in OfChannel(Listed(run.args.resp), run.args.channel) :
              (\A j \in 1..(i - 1) :
                  j \notin OfChannel(Listed(run.args.resp), run.args.channel))
                => run.out.release = Listed(run.args.resp)[i]

\* C14 witness: of two beta releases the first one is returned, after a
\* stable one is skipped for the other.
C14_Witness ==
    /\ RanOp("GetLatestRelease")
    /\ ListingOK(run.args.resp)
    /\ run.args.channel = Beta
    /\ Len(Listed(run.args.resp)) = 2
    /\ OfChannel(Listed(run.args.resp), Beta) = {1, 2}
    /\ Listed(run.args.resp)[1] /= Listed(run.args.resp)[2]
    /\ run.out.release = Listed(run.args.resp)[1]

\* C15: neither GetLatestRelease nor GetReleaseByPullRequest returns a
\* release with an empty tag, whatever the listing holds.
C15_NoEmptyTagReturned ==
    (RanOp("GetLatestRelease") \/ RanOp("GetReleaseByPullRequest")) =>
        (run.out.release /= Nil => run.out.release.TagName /= << >>)

\* The indices of the releases whose tag ends in suffix.
WithSuffix(releases, suffix) ==
    {i \in DOMAIN releases : HasSuffix(releases[i].TagName, suffix)}

\* C16: GetReleaseByPullRequest returns the first release of the listing
\* whose tag ends in ".pr.<prNumber>", and no release and no error when the
\* listing has none; a release tagged for another pull request is never
\* returned.
C16_ReleaseOfThatPullRequest ==
    (RanOp("GetReleaseByPullRequest") /\ ListingOK(run.args.resp)) =>
        /\ run.out.err = NoErr
        /\ WithSuffix(Listed(run.args.resp), prTagSuffix(run.args.prNumber)) = {}
              => run.out.release = Nil
        /\ WithSuffix(Listed(run.args.resp), prTagSuffix(run.args.prNumber)) /= {}
              => run.out.release =
                   Listed(run.args.resp)[
                      Least(WithSuffix(Listed(run.args.resp), prTagSuffix(run.args.prNumber)))]

\* What the template becomes for the tag on linux/amd64, written out for each
\* template GetDownloadURL is called with.
Substituted(template, tag) ==
    IF template = <<"x", "/", "{", "t", "a", "g", "}", "-", "{", "o", "s", "}", "-", "{", "a", "r", "c", "h", "}">> THEN <<"x", "/">> \o tag \o <<"-", "l", "i", "n", "u", "x", "-", "a", "m", "d", "6", "4">>
    ELSE IF template = <<"{", "t", "a", "g", "}", "{", "t", "a", "g", "}">> THEN tag \o tag
    ELSE IF template = <<"{", "o", "s", "}", "/", "{", "o", "s", "}", ".", "{", "a", "r", "c", "h", "}">> THEN <<"l", "i", "n", "u", "x", "/", "l", "i", "n", "u", "x", ".", "a", "m", "d", "6", "4">>
    ELSE template

\* C17: for a release and a non-empty template GetDownloadURL returns the
\* template with every {tag}, {os} and {arch} replaced by the tag of the
\* release, GOOS and GOARCH, whatever the assets of the release are, and no
\* error: also for a template without placeholder and for an empty tag.
C17_TemplateSubstituted ==
    (/\ RanOp("GetDownloadURL")
     /\ run.args.release /= Nil
     /\ run.args.releaseURLFormat /= << >>) =>
        /\ run.out.err = NoErr
        /\ run.out.url = Substituted(run.args.releaseURLFormat, run.args.release.TagName)

\* C17 witness: "{tag}{tag}" for v1.1.0, a release without assets.
C17_Witness ==
    /\ RanOp("GetDownloadURL")
    /\ run.args.release /= Nil
    /\ run.args.release.Assets = << >>
    /\ run.args.releaseURLFormat = <<"{", "t", "a", "g", "}", "{", "t", "a", "g", "}">>
    /\ run.out.url = <<"v", "1", ".", "1", ".", "0", "v", "1", ".", "1", ".", "0">>
    /\ run.out.err = NoErr

\* The asset names the OS, and the architecture, in any letter case.
NamesOs(asset) == ContainsFold(asset.Name, GOOS)

NamesOsArch(asset) == ContainsFold(asset.Name, GOOS) /\ ContainsFold(asset.Name, GOARCH)

\* C18: with an empty template GetDownloadURL returns the download URL of
\* the first asset whose name holds the OS and the architecture (in any
\* letter case), also when an earlier asset holds the OS only; when no asset
\* holds both, that of the first asset whose name holds the OS; when none
\* does, an error and an empty URL.  Without a release it returns an error,
\* whatever the template is.
C18_AssetSelected ==
    RanOp("GetDownloadURL") =>
        /\ run.args.release = Nil => (run.out.err /= NoErr /\ run.out.url = << >>)
        /\ (run.args.release /= Nil /\ run.args.releaseURLFormat = << >>) =>
              /\ \A i \in DOMAIN run.args.release.Assets :
                    (/\ NamesOsArch(run.args.release.Assets[i])
                     /\ \A j \in 1..(i - 1) : ~NamesOsArch(run.args.release.Assets[j])) =>
                        /\ run.out.url = run.args.release.Assets[i].DownloadURL
                        /\ run.out.err = NoErr
              /\ (\A k \in DOMAIN run.args.release.Assets :
                     ~NamesOsArch(run.args.release.Assets[k])) =>
                    /\ \A i \in DOMAIN run.args.release.Assets :
                          (/\ NamesOs(run.args.release.Assets[i])
                           /\ \A j \in 1..(i - 1) : ~NamesOs(run.args.release.Assets[j])) =>
                              /\ run.out.url = run.args.release.Assets[i].DownloadURL
                              /\ run.out.err = NoErr
                    /\ (\A i \in DOMAIN run.args.release.Assets :
                           ~NamesOs(run.args.release.Assets[i])) =>
                          /\ run.out.url = << >>
                          /\ run.out.err /= NoErr

\* C18 witness: app-Linux-amd64 is taken although app-linux-arm64 comes first.
C18_Witness ==
    /\ RanOp("GetDownloadURL")
    /\ run.args.release /= Nil
    /\ run.args.releaseURLFormat = << >>
    /\ run.args.release.Assets = <<AssetLinuxArm64, AssetLinuxAmd64>>
    /\ run.out.url = AssetLinuxAmd64.DownloadURL
    /\ run.out.err = NoErr

\* The answer carries a latest.json with a version and a url.
CompleteInfo(resp) ==
    /\ resp.err = NoErr
    /\ resp.status = StatusOK
    /\ resp.body /= Malformed
    /\ resp.body.Version /= << >>
    /\ resp.body.URL /= << >>

\* C19 as stated: every call of GetLatestUpdateFromURL issues exactly one
\* GET, to <baseURL>/latest.json, and returns the info if and only if the
\* status is 200, the body decodes and version and url are not empty; in
\* every other case it returns an error and no info.
C19_ExactlyOneRequest ==
    RanOp("GetLatestUpdateFromURL") =>
        /\ run.requests = <<run.args.baseURL \o LatestJSON>>
        /\ (run.out.info /= Nil) <=> (run.args.resp /= Nil /\ CompleteInfo(run.args.resp))
        /\ (run.out.info = Nil) <=> (run.out.err /= NoErr)

\* C19 amended: for a base URL that url.Parse accepts GetLatestUpdateFromURL
\* issues exactly one GET, to <baseURL>/latest.json, and returns the decoded
\* info if and only if the status is 200, the body decodes and version and
\* url are not empty, and an error and no info in every other case; for a
\* base URL that does not parse it returns an error and no info without any
\* request.
C19_OneRequestIfBaseURLParses ==
    RanOp("GetLatestUpdateFromURL") =>
        /\ run.args.resp = Nil =>
              /\ run.requests = << >>
              /\ run.out.info = Nil
              /\ run.out.err /= NoErr
        /\ run.args.resp /= Nil =>
              /\ run.requests = <<run.args.baseURL \o LatestJSON>>
              /\ (run.out.info /= Nil) <=> CompleteInfo(run.args.resp)
              /\ run.out.info /= Nil => (run.out.info = run.args.resp.body /\ run.out.err = NoErr)
              /\ run.out.info = Nil => run.out.err /= NoErr
        /\ (run.args.resp = Nil) <=> (run.args.baseURL = RepoHTTPMissingScheme)

\* C19 witness: a latest.json without url, fetched with one request, is an
\* error.
C19_Witness ==
    /\ RanOp("GetLatestUpdateFromURL")
    /\ run.args.baseURL = RepoHTTP
    /\ run.requests = <<<<"h", "t", "t", "p", ":", "/", "/", "x", ".", "i", "o", "/", "u", "/", "l", "a", "t", "e", "s", "t", ".", "j", "s", "o", "n">>>>
    /\ run.args.resp.status = StatusOK
    /\ run.args.resp.body /= Malformed
    /\ run.args.resp.body.Version /= << >>
    /\ run.args.resp.body.URL = << >>
    /\ run.out.info = Nil
    /\ run.out.err /= NoErr

\* The URL of the first link of the page with the relation "next", or empty.
NextOf(page) ==
    IF \E i \in DOMAIN page.links : page.links[i].rel = <<"n", "e", "x", "t">>
    THEN page.links[Least({i \in DOMAIN page.links : page.links[i].rel = <<"n", "e", "x", "t">>})].url
    ELSE << >>

\* The pages chained by "next" links from url on, at most n + 1 of them.
RECURSIVE Chain(_, _, _)
Chain(server, url, n) ==
    IF n = 0 \/ NextOf(PageAt(server, url)) = << >> THEN <<url>>
    ELSE <<url>> \o Chain(server, NextOf(PageAt(server, url)), n - 1)

\* The clone URLs of the pages at urls, in order.
RECURSIVE CloneURLs(_, _)
CloneURLs(server, urls) ==
    IF urls = << >> THEN << >>
    ELSE PageAt(server, Head(urls)).repos \o CloneURLs(server, Tail(urls))

AllOK(server, urls) == \A i \in DOMAIN urls : PageAt(server, urls[i]).kind = "ok"

\* C20: when the pages chained by rel="next" links from the first page on
\* are all answered with success, GetPublicRepos requests exactly these
\* pages, in chain order, and no URL of another relation; it stops at the
\* first page without Link header or without rel="next" link and returns the
\* clone URLs of the pages, concatenated in page order.
C20_FollowsNextLinksOnly ==
    (RanOp("GetPublicRepos") /\ AllOK(run.server, Chain(run.server, UsersURL, MaxRequests))) =>
        /\ IsPrefix(run.requests, Chain(run.server, UsersURL, MaxRequests))
        /\ (run.pc = "done" /\ ~run.cancelled) =>
              /\ run.requests = Chain(run.server, UsersURL, MaxRequests)
              /\ run.result = [items |-> CloneURLs(run.server, run.requests)]
              /\ run.err = NoErr

\* C20 witness: three pages; the second one has a rel="prev" link before
\* its rel="next" link, the third one a rel="prev" link only.
C20_Witness ==
    /\ RanOp("GetPublicRepos")
    /\ run.pc = "done"
    /\ run.server.users.links = <<Last3, Next2>>
    /\ run.server.p2.links = <<PrevUsers, Next3>>
    /\ run.server.p3.links = <<Prev2>>
    /\ run.server.p3.kind = "ok"
    /\ run.requests = <<UsersURL, Page2URL, Page3URL>>
    /\ run.result = [items |-> <<<<"u", "1">>, <<"r", "2">>, <<"r", "2", "b">>, <<"r", "3">>>>]
    /\ run.err = NoErr

-----------------------------------------------------------------------------
(* updater.go: the tag-based and the pull-request-based operations, called  *)
(* directly                                                                 *)

\* The arguments an operation passes on to CheckForUpdates or CheckOnly.
Passed(callee, channel, forceSemVerPrefix, releaseURLFormat) ==
    [callee |-> callee, channel |-> channel, forceSemVerPrefix |-> forceSemVerPrefix,
     releaseURLFormat |-> releaseURLFormat]

\* An operation run to its end: DoUpdate, if it was called, returned applyErr.
Finish(out, applyErr) ==
    IF out.c.pc = "DoUpdate" THEN Outcome(afterDoUpdate(out.c, applyErr), out.urls) ELSE out

\* CheckForUpdates(owner, repo, channel, forceSemVerPrefix, releaseURLFormat)
\* from its call on, when client.GetLatestRelease returns got.
runCheckForUpdates(passed, got) ==
    afterCheckForUpdates(
        [Called(IdleCall, <<"CheckForUpdates", "CheckForNewerVersion", "GetLatestRelease">>)
            EXCEPT !.fetched = got,
                   !.resolved = CheckForNewerVersion(got, passed.forceSemVerPrefix)],
        CheckForNewerVersion(got, passed.forceSemVerPrefix),
        passed.forceSemVerPrefix, passed.releaseURLFormat)

\* CheckOnly(owner, repo, channel, forceSemVerPrefix, releaseURLFormat), the
\* same way.
runCheckOnly(passed, got) ==
    Outcome(afterCheckOnly(
                [Called(IdleCall, <<"CheckOnly", "CheckForNewerVersion", "GetLatestRelease">>)
                    EXCEPT !.fetched = got,
                           !.resolved = CheckForNewerVersion(got, passed.forceSemVerPrefix)],
                CheckForNewerVersion(got, passed.forceSemVerPrefix),
                passed.forceSemVerPrefix),
            << >>)

\* Faulty variant: the current version is classified as a pre-release.
channelOfVersionAsPreRelease(version) == determineChannel(version, TRUE)

\* The channel of the current version: determineChannel(Version, false).
channelOfVersion(version) == determineChannel(version, FALSE)

CheckForUpdatesByTag ==
    Passed("CheckForUpdates", channelOfVersion(Version), TRUE, << >>)

CheckOnlyByTag ==
    Passed("CheckOnly", channelOfVersion(Version), TRUE, << >>)

\* Faulty variant: the release of the pull request is applied only when it
\* is newer than the current version.
afterGetReleaseByPullRequestIfNewer(c, got, releaseURLFormat) ==
    IF got.err /= NoErr
    THEN Outcome(Return(c, <<"error fetching release for pull request">> \o got.err), << >>)
    ELSE IF got.release = Nil
    THEN Outcome(Return(Printed(c, Line("No release found for PR", << >>, << >>)), NoErr),
                 << >>)
    ELSE IF upToDate(Version, got.release.TagName)
    THEN Outcome(Return(Called(c, <<"semver.Compare">>), NoErr), << >>)
    ELSE afterGetDownloadURL(
            Printed(Called(c, <<"GetDownloadURL">>),
                    Line("Release found for PR. Applying update...",
                         << >>, got.release.TagName)),
            GetDownloadURL(got.release, releaseURLFormat))

\* CheckForUpdatesByPullRequest after client.GetReleaseByPullRequest
\* returned got.
afterGetReleaseByPullRequest(c, got, releaseURLFormat) ==
    IF got.err /= NoErr
    THEN Outcome(Return(c, <<"error fetching release for pull request">> \o got.err), << >>)
    ELSE IF got.release = Nil
    THEN Outcome(Return(Printed(c, Line("No release found for PR", << >>, << >>)), NoErr),
                 << >>)
    ELSE afterGetDownloadURL(
            Printed(Called(c, <<"GetDownloadURL">>),
                    Line("Release found for PR. Applying update...",
                         << >>, got.release.TagName)),
            GetDownloadURL(got.release, releaseURLFormat))

CheckForUpdatesByPullRequest(got, releaseURLFormat) ==
    afterGetReleaseByPullRequest(
        [Called(IdleCall, <<"CheckForUpdatesByPullRequest", "GetReleaseByPullRequest">>)
            EXCEPT !.fetched = got],
        got, releaseURLFormat)

\* What one of these operations did: the arguments it passed on, the call as
\* it ended and the URLs DoUpdate was called with.
Did(passed, out) == [passed |-> passed, c |-> out.c, urls |-> out.urls]

CheckForUpdatesByTagCall ==
    /\ run = Nil
    /\ \E got \in ClientResults, applyErr \in ApplyResults :
         run' = Ran("CheckForUpdatesByTag", [got |-> got, applyErr |-> applyErr], << >>,
                    Did(CheckForUpdatesByTag,
                        Finish(runCheckForUpdates(CheckForUpdatesByTag, got), applyErr)))
    /\ UNCHANGED <<Version, service, newErr, config, call, applied, starts>>

CheckOnlyByTagCall ==
    /\ run = Nil
    /\ \E got \in ClientResults :
         run' = Ran("CheckOnlyByTag", [got |-> got], << >>,
                    Did(CheckOnlyByTag, runCheckOnly(CheckOnlyByTag, got)))
    /\ UNCHANGED <<Version, service, newErr, config, call, applied, starts>>

CheckForUpdatesByPullRequestCall ==
    /\ run = Nil
    /\ \E got \in ClientResults, prNumber \in PRNumbers, releaseURLFormat \in URLFormats,
          applyErr \in ApplyResults :
         run' = Ran("CheckForUpdatesByPullRequest",
                    [got |-> got, prNumber |-> prNumber,
                     releaseURLFormat |-> releaseURLFormat, applyErr |-> applyErr],
                    << >>,
                    Did(Nil, Finish(CheckForUpdatesByPullRequest(got, releaseURLFormat),
                                    applyErr)))
    /\ UNCHANGED <<Version, service, newErr, config, call, applied, starts>>

\* Current versions of the builds these operations run in: those of the
\* service and an alpha and a beta build.
VAlphaBuild == <<"1", ".", "2", ".", "0", "-", "a", "l", "p", "h", "a", ".", "3">>

VBetaBuild == <<"v", "1", ".", "1", ".", "0", "-", "B", "E", "T", "A", ".", "2">>

BuildVersions == Versions \cup {VAlphaBuild, VBetaBuild}

OperationsInit ==
    /\ Version \in BuildVersions
    /\ service = Nil
    /\ newErr = NoErr
    /\ config = Nil
    /\ call = [p \in Callers |-> IdleCall]
    /\ applied = << >>
    /\ starts = 0
    /\ run = Nil

OperationsNext ==
    \/ CheckForUpdatesByTagCall
    \/ CheckOnlyByTagCall
    \/ CheckForUpdatesByPullRequestCall

\* The operations of updater.go that are not reached through the service,
\* each called on its own.
OperationsSpec == OperationsInit /\ [][OperationsNext]_vars

-----------------------------------------------------------------------------
(* Two goroutines calling Start of one service                              *)

ConcurrentCallers == {"c1", "c2"}

\* The configurations of a service that checks GitHub and applies what it
\* finds.
ConcurrentConfigs ==
    [CheckOnStartup : {CheckAndUpdateOnStartup}, RepoURL : {RepoGitHub}, Channel : Channels,
     ForceSemVerPrefix : {FALSE}, ReleaseURLFormat : URLFormats]

ConcurrentInit ==
    /\ Version = <<"1", ".", "0", ".", "0">>
    /\ service = Nil
    /\ newErr = NoErr
    /\ config = Nil
    /\ call = [p \in ConcurrentCallers |-> IdleCall]
    /\ applied = << >>
    /\ starts = 0
    /\ run = Nil

ConcurrentNext ==
    \/ \E cfg \in ConcurrentConfigs : NewUpdateService(cfg)
    \/ \E p \in DOMAIN call : Start(p)
    \/ \E p \in DOMAIN call : CheckForUpdates(p)
    \/ \E p \in DOMAIN call : DoUpdate(p)

\* Start has no lock and the check operations share no variable they write:
\* the steps of the two callers interleave freely.
ConcurrentSpec == ConcurrentInit /\ [][ConcurrentNext]_vars

-----------------------------------------------------------------------------
(* Display formatting                                                       *)

C22_DisplayRoundTrip ==
    (RanOp("formatVersionForDisplay") /\ run.args.forceSemVerPrefix) =>
        /\ HasPrefix(run.args.version, <<"v">>) =>
              <<"v">> \o formatVersionForDisplay(run.out, FALSE) = run.args.version
        /\ ~HasPrefix(run.args.version, <<"v">>) =>
              formatVersionForDisplay(run.out, FALSE) = run.args.version

\* C22 witness: 1.1.0 is shown as v1.1.0 with the flag, and that as 1.1.0
\* without it.
C22_Witness ==
    /\ RanOp("formatVersionForDisplay")
    /\ run.args.forceSemVerPrefix
    /\ run.args.version = V110
    /\ run.out = Vv110
    /\ formatVersionForDisplay(run.out, FALSE) = V110

-----------------------------------------------------------------------------
(* The repository listing: termination, fallback and cancellation           *)

\* The call of GetPublicRepos has returned.
Finished == RanOp("GetPublicRepos") /\ run.pc = "done"

\* C23: every call of GetPublicRepos returns after finitely many requests,
\* whatever the server answers to each request.  A server answers a page the
\* same way every time, and what the loop does next depends on the page it
\* is at only: a call returns if and only if its loop never comes back to a
\* page it has requested before.
C23_NeverBackAtARequestedPage ==
    (RanOp("GetPublicRepos") /\ run.pc = "loop") => ~In(run.requests, run.url)

\* The positions at which url was requested.
RequestsOf(url) == {i \in DOMAIN run.requests : run.requests[i] = url}

\* C24: the organization endpoint is requested at most once per call, and
\* only as the second request, after a non-success answer to the first one;
\* a non-success answer to the organization request or to a later page ends
\* the call with an error, without result and without further request; the
\* clone URLs of the user listing and of the organization listing never come
\* in one result.
C24_FallbackForFirstRequestOnly ==
    RanOp("GetPublicRepos") =>
        /\ RequestsOf(OrgsURL) \subseteq {2}
        /\ 2 \in RequestsOf(OrgsURL) => run.server.users.kind = "status"
        /\ \A i \in DOMAIN run.requests :
              ((i > 1 \/ run.requests[i] = OrgsURL)
               /\ PageAt(run.server, run.requests[i]).kind = "status") =>
                  /\ i = Len(run.requests)
                  /\ run.pc = "done"
                  /\ run.result = Nil
                  /\ run.err /= NoErr
        /\ (run.pc = "done" /\ run.result /= Nil) =>
              ~(In(run.result.items, <<"u", "1">>) /\ In(run.result.items, <<"o", "1">>))

\* C25: once the context is cancelled GetPublicRepos issues no further
\* request, also after the first page, and returns the error of the context
\* and no clone URLs.
C25_NoRequestAfterCancel ==
    [][(RanOp("GetPublicRepos") /\ run.cancelled) =>
          /\ run'.requests = run.requests
          /\ run.pc = "loop" =>
                /\ run'.pc = "done"
                /\ run'.result = Nil
                /\ run'.err = <<"context canceled">>]_vars

\* C25 witness: cancelled after two pages, the call returned without the
\* clone URLs it had collected.
C25_Witness ==
    /\ Finished
    /\ run.cancelled
    /\ run.requests = <<UsersURL, Page2URL>>
    /\ run.url = Page3URL
    /\ run.allCloneURLs /= << >>
    /\ run.result = Nil
    /\ run.err = <<"context canceled">>

-----------------------------------------------------------------------------
(* The service: the display flag and the state Start leaves behind          *)

Fresh(c) ==
    /\ c.fetched = Nil
    /\ c.resolved = Nil
    /\ c.info = Nil
    /\ c.downloadURL = << >>
    /\ c.printed = << >>
    /\ c.applyErr = NoErr
    /\ ~In(c.trace, "DoUpdate")

\* C30: no step changes the current version, and none after construction
\* changes the configuration or the backend of the service, also not a
\* successful update; every Start begins a check of its own, which nothing
\* of an earlier one is carried into, and DoUpdate is called once for every
\* Start whose check finds an update and its URL.
C30_StartLeavesServiceUnchanged ==
    [][/\ Version' = Version
       /\ config /= Nil => (config' = config /\ service' = service /\ newErr' = newErr)
       /\ Len(applied') <= starts'
       /\ \A p \in DOMAIN call :
             /\ starts' = starts + 1 => Fresh(call'[p])
             /\ (call'[p].pc = "DoUpdate" /\ call[p].pc /= "DoUpdate") <=>
                   Len(applied') = Len(applied) + 1
             /\ Count(call'[p].trace, "DoUpdate") <= 1]_vars

\* C30 witness: two Start calls in mode CheckAndUpdateOnStartup, each ended
\* with a successful update from the same URL, at the same current version.
C30_Witness ==
    \E p \in DOMAIN call :
        /\ starts = 2
        /\ service /= Nil
        /\ service.config.CheckOnStartup = CheckAndUpdateOnStartup
        /\ Len(applied) = 2
        /\ applied[1] = applied[2]
        /\ call[p].pc = "returned"
        /\ call[p].result = NoErr
        /\ In(call[p].trace, "DoUpdate")

-----------------------------------------------------------------------------
(* The tag-based and the pull-request-based operations                      *)

\* The channel of a build by the tag of its version alone.
ChannelOfTag(version) ==
    IF ContainsFold(version, Alpha) THEN Alpha
    ELSE IF ContainsFold(version, Beta) THEN Beta
    ELSE Stable

\* C27: CheckForUpdatesByTag and CheckOnlyByTag ask for the channel of the
\* current version, classified as no pre-release: alpha for an alpha tag,
\* beta for a beta tag and stable for every other one, a pre-release such as
\* 1.1.0-rc.1 included; they pass a forced "v" prefix, which every version
\* they print carries, and no URL template, so that a download URL is that of
\* an asset of the release.
C27_ChannelOfCurrentVersion ==
    (RanOp("CheckForUpdatesByTag") \/ RanOp("CheckOnlyByTag")) =>
        /\ run.out.passed.channel = ChannelOfTag(Version)
        /\ run.out.passed.forceSemVerPrefix
        /\ run.out.passed.releaseURLFormat = << >>
        /\ run.out.passed.callee =
              (IF run.op = "CheckOnlyByTag" THEN "CheckOnly" ELSE "CheckForUpdates")
        /\ \A i \in DOMAIN run.out.c.printed :
              run.out.c.printed[i].msg \notin {"No releases found.", "No new release found."} =>
                  /\ HasPrefix(run.out.c.printed[i].current, <<"v">>)
                  /\ HasPrefix(run.out.c.printed[i].latest, <<"v">>)
        /\ \A i \in DOMAIN run.out.urls :
              \E j \in DOMAIN run.args.got.release.Assets :
                  run.out.urls[i] = run.args.got.release.Assets[j].DownloadURL

\* C27 witness: the build 1.1.0-rc.1 is on the stable channel, and
\* CheckForUpdatesByTag applies the asset of a release for it.
C27_Witness ==
    /\ RanOp("CheckForUpdatesByTag")
    /\ Version = <<"1", ".", "1", ".", "0", "-", "r", "c", ".", "1">>
    /\ run.out.passed.channel = Stable
    /\ run.out.urls = <<AssetLinuxAmd64.DownloadURL>>
    /\ run.out.c.pc = "returned"
    /\ run.out.c.result = NoErr

\* C29: CheckForUpdatesByPullRequest compares no versions: whenever the
\* client returns a release and GetDownloadURL a URL, DoUpdate is called
\* once, with that URL, also for a tag equal to or lower than the current
\* version; without a release the operation returns nil and DoUpdate is not
\* called; on an error of the client or of GetDownloadURL it returns an
\* error and DoUpdate is not called.
C29_PullRequestReleaseApplied ==
    RanOp("CheckForUpdatesByPullRequest") =>
        /\ ~In(run.out.c.trace, "semver.Compare")
        /\ run.out.c.pc = "returned"
        /\ run.args.got.err /= NoErr =>
              /\ run.out.urls = << >>
              /\ ~In(run.out.c.trace, "DoUpdate")
              /\ run.out.c.result /= NoErr
        /\ (run.args.got.err = NoErr /\ run.args.got.release = Nil) =>
              /\ run.out.urls = << >>
              /\ ~In(run.out.c.trace, "DoUpdate")
              /\ run.out.c.result = NoErr
        /\ (run.args.got.err = NoErr /\ run.args.got.release /= Nil) =>
              /\ GetDownloadURL(run.args.got.release, run.args.releaseURLFormat).err /= NoErr =>
                    /\ run.out.urls = << >>
                    /\ ~In(run.out.c.trace, "DoUpdate")
                    /\ run.out.c.result /= NoErr
              /\ GetDownloadURL(run.args.got.release, run.args.releaseURLFormat).err = NoErr =>
                    /\ run.out.urls =
                          <<GetDownloadURL(run.args.got.release, run.args.releaseURLFormat).url>>
                    /\ Count(run.out.c.trace, "DoUpdate") = 1
                    /\ run.out.c.result = run.args.applyErr

\* C29 witness: the build is v1.1.0 and the release of the pull request has
\* the lower tag v1.0.0; DoUpdate is called with its asset.
C29_Witness ==
    /\ RanOp("CheckForUpdatesByPullRequest")
    /\ Version = Vv110
    /\ run.args.got.release /= Nil
    /\ run.args.got.release.TagName = Vv100
    /\ run.args.releaseURLFormat = << >>
    /\ run.out.urls = <<AssetLinuxAmd64.DownloadURL>>
    /\ Count(run.out.c.trace, "DoUpdate") = 1
    /\ run.out.c.result = NoErr

-----------------------------------------------------------------------------
(* Concurrent Start calls                                                   *)

\* The release source answered the check of c, and the check found an
\* update for which GetDownloadURL returns a URL.
Applies(c) ==
    /\ c.fetched /= Nil
    /\ CheckForNewerVersion(c.fetched, service.config.ForceSemVerPrefix).updateAvailable
    /\ GetDownloadURL(c.fetched.release, service.config.ReleaseURLFormat).err = NoErr

\* C26: concurrent Start calls are neither serialized nor deduplicated.  A
\* caller can enter Start, get its answer and have DoUpdate return whatever
\* the other caller is doing; what its check decides follows from its own
\* answer alone, and it calls DoUpdate for it also while the other caller is
\* inside DoUpdate.
C26_ChecksRunIndependently ==
    \A p \in DOMAIN call :
        /\ (service /= Nil /\ starts < MaxStarts /\ call[p].pc \in {"idle", "returned"}) =>
              ENABLED Start(p)
        /\ call[p].pc = "CheckForUpdates" => ENABLED CheckForUpdates(p)
        /\ call[p].pc = "DoUpdate" => ENABLED DoUpdate(p)
        /\ call[p].fetched /= Nil =>
              /\ call[p].resolved =
                    CheckForNewerVersion(call[p].fetched, service.config.ForceSemVerPrefix)
              /\ In(call[p].trace, "DoUpdate") <=> Applies(call[p])
        /\ Len(applied) >= Cardinality({q \in DOMAIN call : In(call[q].trace, "DoUpdate")})

\* C26 witness: both callers are inside DoUpdate at the same time, each for
\* the release of its own answer.
C26_Witness ==
    /\ DOMAIN call = ConcurrentCallers
    /\ \A p \in DOMAIN call : call[p].pc = "DoUpdate"
    /\ Len(applied) = 2
    /\ call["c1"].fetched /= call["c2"].fetched
    /\ applied = <<call["c2"].downloadURL, call["c1"].downloadURL>>
    /\ applied[1] /= applied[2]

====
